---------------------------- MODULE Spec2Model ----------------------------
(***************************************************************************)
(* A model of kicost/eda_tools/eda_tools.py: the component organisation    *)
(* pipeline of KiCost (sub-part split, grouping, reference collapse and    *)
(* expansion).  Python strings are TLA+ strings, handled character by      *)
(* character; a dict is a function whose DOMAIN is its key set; a list is  *)
(* a sequence.  The regular expressions of the source are modelled by      *)
(* operators that scan the string the way the pattern matches it.  A value *)
(* that the source computes once and uses several times is passed on as an *)
(* operator argument.                                                      *)
(***************************************************************************)
EXTENDS Integers, Sequences, FiniteSets, TLC

VARIABLES
    pc,                     \* position of the function that is running
    components,             \* group_parts: the RecordSet (mutated in place)
    components_in,          \* group_parts: the RecordSet as it was passed
    order,                  \* group_parts: insertion order of the RecordSet
    fields_merge,           \* group_parts: the merge-field list (argument, then normalised)
    component_groups,       \* group_parts: provisional groups, in creation order
    new_component_groups,   \* group_parts: the groups returned
    parts,                  \* subpart_split: the RecordSet passed
    parts_order,            \* subpart_split: its insertion order
    part_index,             \* subpart_split: index of the next designator of the loop
    p_manf,                 \* subpart_split: the local variable p_manf
    splitted_components,    \* subpart_split: the RecordSet returned
    refs,                   \* collapse_refs: the list of references passed
    tokens,                 \* split_refs: the tokens the text passed is written from
    text,                   \* split_refs: the text passed; collapse_refs: the text returned
    expanded,               \* split_refs: its outcome
    code_items,             \* the codes a manufacturer/distributor field value is written from
    code_text,              \* subpart_list: the field value passed
    code_list,              \* subpart_list: the list returned
    decoded,                \* manf_code_qtypart: the (qty, part) of each element of the list
    groups_in,              \* groups_sort: the list of groups passed
    groups_order,           \* groups_sort: component_groups_order_new of the first call
    sorted_groups,          \* groups_sort: the list returned
    resorted_groups,        \* groups_sort: the list returned for the list returned
    raw_components,         \* remove_dnp_parts: the RecordSet passed
    variant,                \* remove_dnp_parts: the variant pattern passed
    accepted_components     \* remove_dnp_parts: the RecordSet returned

vars == <<pc, components, components_in, order, fields_merge, component_groups,
          new_component_groups, parts, parts_order, part_index, p_manf,
          splitted_components, refs, tokens, text, expanded, code_items, code_text,
          code_list,
          decoded, groups_in, groups_order, sorted_groups, resorted_groups, raw_components,
          variant, accepted_components>>

group_parts_vars == <<components, components_in, order, fields_merge, component_groups,
                      new_component_groups>>
subpart_split_vars == <<parts, parts_order, part_index, p_manf, splitted_components>>
refs_vars == <<refs, tokens, text, expanded>>
decode_vars == <<code_items, code_text, code_list, decoded>>
sort_vars == <<groups_in, groups_order, sorted_groups, resorted_groups>>
dnp_vars == <<raw_components, variant, accepted_components>>

(***************************************************************************)
(* Bounds of the model.                                                    *)
(***************************************************************************)
NumParts == 3       \* designators of the RecordSet passed to group_parts
NumSplitParts == 2  \* designators of the RecordSet passed to subpart_split
MaxRefs == 4        \* longest list of references passed to collapse_refs
MaxTokens == 2      \* most tokens of a text passed to split_refs

(***************************************************************************)
(* Characters and strings.                                                 *)
(***************************************************************************)
Min(S) == CHOOSE x \in S : \A y \in S : x <= y
Max(S) == CHOOSE x \in S : \A y \in S : x >= y

Char(s, i) == IF i \in 1..Len(s) THEN SubSeq(s, i, i) ELSE ""

DigitStr == <<"0", "1", "2", "3", "4", "5", "6", "7", "8", "9">>
Digits == {"0", "1", "2", "3", "4", "5", "6", "7", "8", "9"}             \* \d
UpperCase == <<"A","B","C","D","E","F","G","H","I","J","K","L","M","N","O","P","Q","R",
               "S","T","U","V","W","X","Y","Z">>
LowerCase == <<"a","b","c","d","e","f","g","h","i","j","k","l","m","n","o","p","q","r",
               "s","t","u","v","w","x","y","z">>
Letters == {UpperCase[i] : i \in 1..26} \cup {LowerCase[i] : i \in 1..26}
Spaces == {" ", "\t", "\n", "\r", "\f"}                                  \* \s
Words == Letters \cup Digits \cup {"_"}                                  \* \w

IsDigit(c) == c \in Digits

\* The index before the first element of the set bad of indices, n if it is empty.
BeforeFirst(bad, n) == IF bad = {} THEN n ELSE Min(bad) - 1

\* The last index e >= i-1 such that every character of s[i..e] is in cls.
RunEnd(cls, s, i) == BeforeFirst({k \in i..Len(s) : Char(s, k) \notin cls}, Len(s))

\* The same for the characters that are not in cls (\D, \W).
RunEndNot(cls, s, i) == BeforeFirst({k \in i..Len(s) : Char(s, k) \in cls}, Len(s))

AllChars(cls, s) == \A k \in 1..Len(s) : Char(s, k) \in cls

DigitVal(c) == CHOOSE d \in 0..9 : DigitStr[d + 1] = c

\* int(s) of a string of decimal digits.
RECURSIVE StrToInt(_)
StrToInt(s) ==
    IF Len(s) = 0 THEN 0
    ELSE 10 * StrToInt(SubSeq(s, 1, Len(s) - 1)) + DigitVal(Char(s, Len(s)))

\* str(n) of a natural number.
RECURSIVE IntToStr(_)
IntToStr(n) ==
    IF n < 10 THEN DigitStr[n + 1]
    ELSE IntToStr(n \div 10) \o DigitStr[(n % 10) + 1]

\* sep.join(list)
RECURSIVE Join(_, _)
Join(sep, list) ==
    IF Len(list) = 0 THEN ""
    ELSE IF Len(list) = 1 THEN list[1]
    ELSE list[1] \o sep \o Join(sep, Tail(list))

\* re.sub('[class]', '', s): the characters of the class are removed.
RECURSIVE RemoveChars(_, _)
RemoveChars(cls, s) ==
    IF Len(s) = 0 THEN ""
    ELSE (IF Char(s, 1) \in cls THEN "" ELSE Char(s, 1))
         \o RemoveChars(cls, SubSeq(s, 2, Len(s)))

\* re.split('[class]', s): split at every single character of the class;
\* SplitAtChar splits at index p, the first such character (0: there is none).
RECURSIVE SplitChars(_, _)
SplitAtChar(cls, s, p) ==
    IF p = 0 THEN <<s>>
    ELSE <<SubSeq(s, 1, p - 1)>> \o SplitChars(cls, SubSeq(s, p + 1, Len(s)))

SplitChars(cls, s) ==
    SplitAtChar(cls, s, BeforeFirst({k \in 1..Len(s) : Char(s, k) \in cls}, -1) + 1)

\* re.sub(pat, '', s) for a pattern pat without metacharacters: every
\* non-overlapping occurrence of pat, left to right, is removed.
RECURSIVE RemoveAll(_, _)
RemoveAll(pat, s) ==
    IF Len(pat) = 0 \/ Len(s) < Len(pat) THEN s
    ELSE IF SubSeq(s, 1, Len(pat)) = pat
         THEN RemoveAll(pat, SubSeq(s, Len(pat) + 1, Len(s)))
         ELSE Char(s, 1) \o RemoveAll(pat, SubSeq(s, 2, Len(s)))

\* str.strip()
StripTo(s, keep) == IF keep = {} THEN "" ELSE SubSeq(s, Min(keep), Max(keep))

Strip(s) == StripTo(s, {k \in 1..Len(s) : Char(s, k) \notin Spaces})

\* x in list
InList(x, list) == \E i \in 1..Len(list) : list[i] = x

(***************************************************************************)
(* The constants of lines 40-49 and the globals imported at lines 34-35.   *)
(***************************************************************************)
SEPRTR == ":"
distributor_dict == {"digikey", "mouser"}

QTY_SEPRTR == {":"}          \* the separator characters of (?<!\\)\s*[:]\s*
PART_SEPRTR == {";", ","}    \* the separator characters of (?<!\\)\s*[;,]\s*
ESC_FIND == {";", ",", ":"}  \* the characters \\\s*([;,:])\s* unescapes
SUB_SEPRTR == "#"
REPLICATE_MANF == "~"
SGROUP_SEPRTR == "\n"

(***************************************************************************)
(* PART_REF_REGEX, as used by re.search: the leftmost match of             *)
(*   (?P<prefix>[a-z<sc>\d]*[a-z<sc>])(?P<num>((\d+(\.\d+)?)(#(\d+))?)?)   *)
(* with re.IGNORECASE.  The greedy prefix takes the whole run of prefix    *)
(* characters and gives back the digits that end it.                       *)
(***************************************************************************)
PART_REF_REGEX_SPECIAL_CHAR_REF == {"+", "-", "=", "_", ".", "(", ")", "$", "*", "&"} \cup Spaces
PART_REF_REGEX_NOT_ALLOWED == {"+", "(", ")", "*"}

PrefixEnd == Letters \cup PART_REF_REGEX_SPECIAL_CHAR_REF   \* [a-z<sc>]
PrefixChar == PrefixEnd \cup Digits                         \* [a-z<sc>\d]

\* (\.\d+)? after the digits of ref_num that end at index d.
RefDecimalEnd(s, d) ==
    IF Char(s, d + 1) = "." /\ IsDigit(Char(s, d + 2)) THEN RunEnd(Digits, s, d + 2) ELSE d

\* (#(\d+))? after index d.
RefSubpartEnd(s, d) ==
    IF Char(s, d + 1) = SUB_SEPRTR /\ IsDigit(Char(s, d + 2))
    THEN RunEnd(Digits, s, d + 2) ELSE d

\* The end of the group num, for a prefix that ends at index j and is
\* followed by digits up to index d.
RefNumEnd(s, j, d) == IF d = j THEN j ELSE RefSubpartEnd(s, RefDecimalEnd(s, d))

\* The match whose prefix is s[i..j].
RefMatch(s, i, j) ==
    [match |-> TRUE, prefix |-> SubSeq(s, i, j),
     num |-> SubSeq(s, j + 1, RefNumEnd(s, j, RunEnd(Digits, s, j + 1)))]

\* The match that starts at index i (0: the pattern matches nowhere).
RefMatchFrom(s, i) ==
    IF i = 0 THEN [match |-> FALSE, prefix |-> "", num |-> ""]
    ELSE RefMatch(s, i, Max({k \in i..RunEnd(PrefixChar, s, i) : Char(s, k) \in PrefixEnd}))

PART_REF_REGEX(s) ==
    RefMatchFrom(s, BeforeFirst({i \in 1..Len(s) :
                                   \E k \in i..RunEnd(PrefixChar, s, i) :
                                      Char(s, k) \in PrefixEnd}, -1) + 1)

(***************************************************************************)
(* collapse_refs and its local function convert_to_ranges.                 *)
(***************************************************************************)
\* get_refnum: int(re.match('\d+', refnum).group(0)); -1 stands for the
\* AttributeError raised when refnum does not start with a digit.
get_refnum(refnum) ==
    IF IsDigit(Char(refnum, 1))
    THEN StrToInt(SubSeq(refnum, 1, RunEnd(Digits, refnum, 1)))
    ELSE -1

\* to_int: an int when int(n) succeeds, the string itself otherwise.
to_int(n) ==
    IF Len(n) > 0 /\ AllChars(Digits, n)
    THEN [isint |-> TRUE, n |-> StrToInt(n), s |-> ""]
    ELSE [isint |-> FALSE, n |-> 0, s |-> n]

\* nums.sort(key=get_refnum), a stable sort: x, which came before the
\* sorted list rest, goes in front of the first element whose key is not less.
InsertAt(x, rest, cut) == SubSeq(rest, 1, cut) \o <<x>> \o SubSeq(rest, cut + 1, Len(rest))

InsertByRefnum(x, rest) ==
    InsertAt(x, rest, Cardinality({i \in 1..Len(rest) : get_refnum(rest[i]) < get_refnum(x)}))

RECURSIVE SortByRefnum(_)
SortByRefnum(nums) ==
    IF Len(nums) <= 1 THEN nums
    ELSE InsertByRefnum(nums[1], SortByRefnum(Tail(nums)))

\* The for loop of lines 644-652: the last range_end the loop accepts, from
\* range_end on; best when it breaks at once.  Indices are 1-based.
RECURSIVE LastRangeEnd(_, _, _, _)
LastRangeEnd(nums, range_start, range_end, best) ==
    IF range_end > Len(nums) THEN best
    ELSE IF ~nums[range_end].isint THEN best
    ELSE IF range_end - range_start # nums[range_end].n - nums[range_start].n THEN best
    ELSE LastRangeEnd(nums, range_start, range_end + 1, range_end)

\* The while loop of lines 635-656.  A range is [range |-> TRUE, first, last];
\* a single number or string is [range |-> FALSE, first].  last_end is the
\* end of the range that starts at range_start, 0 when there is no range.
RECURSIVE ScanRanges(_, _)
AppendRange(nums, range_start, last_end) ==
    IF last_end = 0
    THEN <<[range |-> FALSE, first |-> nums[range_start], last |-> nums[range_start]]>>
         \o ScanRanges(nums, range_start + 1)
    ELSE <<[range |-> TRUE, first |-> nums[range_start], last |-> nums[last_end]]>>
         \o ScanRanges(nums, last_end + 1)

ScanRanges(nums, range_start) ==
    IF range_start > Len(nums) THEN <<>>
    ELSE IF ~nums[range_start].isint THEN AppendRange(nums, range_start, 0)
    ELSE AppendRange(nums, range_start, LastRangeEnd(nums, range_start, range_start + 2, 0))

\* Line 630.
ToInts(nums) == [i \in 1..Len(nums) |-> to_int(nums[i])]

\* convert_to_ranges with the fault of not sorting the numbers; C8 tells the
\* two apart.
convert_to_ranges_Unsorted(nums) == ScanRanges(ToInts(nums), 1)

convert_to_ranges(nums) == ScanRanges(ToInts(SortByRefnum(nums)), 1)

\* str() of an element of the list convert_to_ranges works on.
NumStr(x) == IF x.isint THEN IntToStr(x.n) ELSE x.s

\* prefix_nums.setdefault(prefix, []).append(num), on a dict kept in
\* insertion order as a sequence of [prefix, nums].
SetDefaultAppend(prefix_nums, prefix, num) ==
    IF \E i \in 1..Len(prefix_nums) : prefix_nums[i].prefix = prefix
    THEN [i \in 1..Len(prefix_nums) |->
            IF prefix_nums[i].prefix = prefix
            THEN [prefix_nums[i] EXCEPT !.nums = Append(@, num)]
            ELSE prefix_nums[i]]
    ELSE Append(prefix_nums, [prefix |-> prefix, nums |-> <<num>>])

AppendMatch(prefix_nums, m) == SetDefaultAppend(prefix_nums, m.prefix, m.num)

\* Lines 660-675.
RECURSIVE PrefixNums(_, _)
PrefixNums(rs, prefix_nums) ==
    IF Len(rs) = 0 THEN prefix_nums
    ELSE PrefixNums(Tail(rs), AppendMatch(prefix_nums, PART_REF_REGEX(rs[1])))

\* Lines 682-691, for one prefix.
CollapsedOf(prefix, ranges) ==
    [i \in 1..Len(ranges) |->
        IF ranges[i].range
        THEN prefix \o NumStr(ranges[i].first) \o "-" \o prefix \o NumStr(ranges[i].last)
        ELSE prefix \o NumStr(ranges[i].first)]

RECURSIVE CollapsedRefs(_)
CollapsedRefs(prefix_nums) ==
    IF Len(prefix_nums) = 0 THEN <<>>
    ELSE CollapsedOf(prefix_nums[1].prefix, convert_to_ranges(prefix_nums[1].nums))
         \o CollapsedRefs(Tail(prefix_nums))

\* Lines 677-694.
CollapsePrefixNums(prefix_nums) ==
    IF \E i \in 1..Len(prefix_nums) : \E k \in 1..Len(prefix_nums[i].nums) :
          get_refnum(prefix_nums[i].nums[k]) = -1
    THEN [status |-> "error", text |-> ""]
    ELSE [status |-> "ok", text |-> Join(",", CollapsedRefs(prefix_nums))]

\* The outcome of collapse_refs(rs): "ok" with the text returned, "exit" when
\* a reference does not match PART_REF_REGEX (line 671), "error" when
\* get_refnum raises (a reference with no number).
collapse_refs(rs) ==
    IF \E i \in 1..Len(rs) : ~PART_REF_REGEX(rs[i]).match
    THEN [status |-> "exit", text |-> ""]
    ELSE CollapsePrefixNums(PrefixNums(rs, <<>>))

(***************************************************************************)
(* split_refs.  An outcome is "ok" with the list of references, or "error" *)
(* when the source raises (IndexError, ValueError, AttributeError).        *)
(***************************************************************************)
RefError == [status |-> "error", refs |-> <<>>]

\* re.findall('^\D+', ref): the leading run of non-digits ("" when there is none).
LeadingNonDigits(ref) == SubSeq(ref, 1, RunEndNot(Digits, ref, 1))

\* ''.join(re.findall('^d*\W', s)): leading letters d and one non-word
\* character, which is at index e.
LeadingTo(s, e, cls) == IF Char(s, e) # "" /\ Char(s, e) \notin cls THEN SubSeq(s, 1, e) ELSE ""

LeadingDNonWord(s) == LeadingTo(s, RunEnd({"d"}, s, 1) + 1, Words)

\* ''.join(re.findall('^\d+\D', s)): leading digits and one non-digit.
LeadingDigitsNonDigit(s) ==
    IF IsDigit(Char(s, 1)) THEN LeadingTo(s, RunEnd(Digits, s, 1) + 1, Digits) ELSE ""

\* ''.join(re.findall('\D*(\d+)$', n)): the trailing run of digits.
TrailingDigits(n) ==
    SubSeq(n, Max({0} \cup {k \in 1..Len(n) : ~IsDigit(Char(n, k))}) + 1, Len(n))

\* re.sub('^' + name, '', s)
RemoveLeading(name, s) ==
    IF Len(name) <= Len(s) /\ SubSeq(s, 1, Len(name)) = name
    THEN SubSeq(s, Len(name) + 1, Len(s)) ELSE s

\* RangeRefs with the fault of leaving out the last reference of the range
\* (the + 1 of line 731); C10 tells the two apart.
RangeRefs_Exclusive(name, base, a, b) ==
    [i \in 1..(IF b > a THEN b - a ELSE 0) |-> name \o base \o IntToStr(a + i - 1)]

\* Lines 731-733.
RangeRefs(name, base, a, b) ==
    [i \in 1..(IF b >= a THEN b - a + 1 ELSE 0) |-> name \o base \o IntToStr(a + i - 1)]

RangeOfNums(name, base, n1, n2) ==
    IF n1 = "" \/ n2 = "" THEN RefError
    ELSE [status |-> "ok", refs |-> RangeRefs(name, base, StrToInt(n1), StrToInt(n2))]

\* Lines 728-729.
RangeOfParts(name, splitted_nums) ==
    RangeOfNums(name, LeadingDigitsNonDigit(splitted_nums[1]),
                TrailingDigits(splitted_nums[1]), TrailingDigits(splitted_nums[2]))

\* Line 723.
RangeNamed(designator_name, splitted_nums) ==
    RangeOfParts(designator_name,
                 [i \in 1..Len(splitted_nums) |-> RemoveAll(designator_name, splitted_nums[i])])

\* Lines 720-722.
RangeSplit(name, splitted_nums) ==
    IF name = "" THEN RefError
    ELSE RangeNamed(name \o LeadingDNonWord(splitted_nums[1]), splitted_nums)

\* Lines 720-735: a reference with '-'.
SplitRange(ref) == RangeSplit(LeadingNonDigits(ref), SplitChars({"-"}, ref))

\* Lines 737-739: a reference with '/' or '\'.
ListNamed(designator_name, items) ==
    IF designator_name = "" THEN RefError
    ELSE [status |-> "ok",
          refs |-> [i \in 1..Len(items) |->
                      designator_name \o RemoveLeading(designator_name, items[i])]]

SplitList(ref) == ListNamed(LeadingNonDigits(ref), SplitChars({"/", "\\"}, ref))

\* Lines 746-751: not a group of references.
SingleMatched(ref, m) ==
    IF ~m.match THEN RefError
    ELSE [status |-> "ok", refs |-> <<IF m.num = "" THEN ref \o "0" ELSE ref>>]

SingleCleaned(ref) == SingleMatched(ref, PART_REF_REGEX(ref))

SplitSingle(ref) == SingleCleaned(RemoveChars({"-", "/", "\\"}, ref))

\* Lines 718-751, for a reference cleaned by line 714.
SplitCleaned(ref) ==
    IF \E k \in 2..RunEnd(Words, ref, 1) : IsDigit(Char(ref, k))      \* '^\w+\d'
    THEN IF \E k \in 1..Len(ref) : Char(ref, k) = "-" THEN SplitRange(ref)
         ELSE IF \E k \in 1..Len(ref) : Char(ref, k) \in {"/", "\\"} THEN SplitList(ref)
         ELSE [status |-> "ok", refs |-> <<ref>>]
    ELSE SplitSingle(ref)

\* The body of the loop of lines 711-751, for one element of partial_ref.
SplitOne(ref) == SplitCleaned(RemoveChars(PART_REF_REGEX_NOT_ALLOWED, ref))

\* refs += ..., unless one of the two raised.
ConcatRefs(one, rest) ==
    IF one.status = "ok" /\ rest.status = "ok"
    THEN [status |-> "ok", refs |-> one.refs \o rest.refs]
    ELSE RefError

RECURSIVE SplitEach(_)
SplitEach(partial_ref) ==
    IF Len(partial_ref) = 0 THEN [status |-> "ok", refs |-> <<>>]
    ELSE ConcatRefs(SplitOne(partial_ref[1]), SplitEach(Tail(partial_ref)))

split_refs(txt) == SplitEach(SplitChars({",", ";"}, txt))

(***************************************************************************)
(* Dicts.                                                                  *)
(***************************************************************************)
None == "<None>"

EmptyDict == [k \in {} |-> ""]

\* dict.get(key), which is None when the key is missing.
Get(fields, key) == IF key \in DOMAIN fields THEN fields[key] ELSE None

\* The dict d after d[key] = val.
Put(d, key, val) == [k \in DOMAIN d \cup {key} |-> IF k = key THEN val ELSE d[k]]

(***************************************************************************)
(* subpart_list and manf_code_qtypart.                                     *)
(***************************************************************************)
\* re.split(r'(?<!\\)\s*[seps]\s*', s), scanning s from index from on; the
\* piece being collected starts at index start.  The separator found starts
\* at index p (0: there is none) and ends at index end.
RECURSIVE SplitFrom(_, _, _, _)
SplitAfter(seps, s, start, p, end) ==
    <<SubSeq(s, start, p - 1)>> \o SplitFrom(seps, s, end + 1, end + 1)

SplitAtSep(seps, s, start, p) ==
    IF p = 0 THEN <<SubSeq(s, start, Len(s))>>
    ELSE SplitAfter(seps, s, start, p, RunEnd(Spaces, s, RunEnd(Spaces, s, p) + 2))

SplitFrom(seps, s, from, start) ==
    SplitAtSep(seps, s, start,
               BeforeFirst({p \in from..Len(s) :
                              /\ Char(s, p - 1) # "\\"
                              /\ Char(s, RunEnd(Spaces, s, p) + 1) \in seps}, -1) + 1)

RegexSplit(seps, s) == SplitFrom(seps, s, 1, 1)

subpart_list(part) == RegexSplit(PART_SEPRTR, Strip(part))

\* re.sub(ESC_FIND, r'\1', s): a backslash, blanks, a separator (at index q)
\* and blanks become the separator alone.
RECURSIVE Unescape(_)
UnescapeAt(s, q) ==
    IF Char(s, 1) = "\\" /\ Char(s, q) \in ESC_FIND
    THEN Char(s, q) \o Unescape(SubSeq(s, RunEnd(Spaces, s, q + 1) + 1, Len(s)))
    ELSE Char(s, 1) \o Unescape(SubSeq(s, 2, Len(s)))

Unescape(s) == IF Len(s) = 0 THEN "" ELSE UnescapeAt(s, RunEnd(Spaces, s, 2) + 1)

\* re.match of "^\s*[\-\+]?\s*[0-9]*\s*[\.\/]*\s*?[0-9]*\s*$": SignEnd is the
\* end of ^\s*[\-\+]? when the blanks end at index p, NumberEnd the end of
\* \s*[0-9]*\s* from index p on.
SignEnd(s, p) == IF Char(s, p + 1) \in {"-", "+"} THEN p + 1 ELSE p

NumberEnd(s, p) == RunEnd(Spaces, s, RunEnd(Digits, s, RunEnd(Spaces, s, p) + 1) + 1)

num_format(s) ==
    NumberEnd(s, RunEnd({".", "/"}, s, NumberEnd(s, SignEnd(s, RunEnd(Spaces, s, 1)) + 1) + 1) + 1)
        = Len(s)

\* Line 600.
DefaultQty(r) == IF r.qty = "" THEN [r EXCEPT !.qty = "1"] ELSE r

\* QtyPart without the tests: the first string is always the quantity.
QtyPart_QtyFirst(strings0, strings1, string0_test, string1_test) ==
    [qty |-> Strip(strings0), part |-> Strip(strings1)]

\* Lines 581-599.
QtyPart(strings0, strings1, string0_test, string1_test) ==
    IF string0_test /\ ~string1_test
    THEN [qty |-> Strip(strings0), part |-> Strip(strings1)]
    ELSE IF ~string0_test /\ string1_test
    THEN [qty |-> Strip(strings1), part |-> Strip(strings0)]
    ELSE IF string0_test /\ string1_test
    THEN IF Len(RemoveChars({".", "/"}, strings0)) < Len(RemoveChars({".", "/"}, strings1))
         THEN [qty |-> Strip(strings0), part |-> Strip(strings1)]
         ELSE [qty |-> Strip(strings1), part |-> Strip(strings0)]
    ELSE [qty |-> "1", part |-> Strip(strings0) \o Strip(strings1)]

\* Lines 576-604.
QtyPartOf(strings) ==
    IF Len(strings) = 2
    THEN DefaultQty(QtyPart(strings[1], strings[2], num_format(strings[1]),
                            num_format(strings[2])))
    ELSE [qty |-> "1", part |-> Join("", strings)]

manf_code_qtypart(subpart) == QtyPartOf(RegexSplit(QTY_SEPRTR, Unescape(subpart)))

(***************************************************************************)
(* subpart_split.                                                          *)
(***************************************************************************)
Unbound == "<unbound>"      \* p_manf before its first assignment

\* Lines 407-408.
dist == <<"digikey#", "mouser#", "manf#">>

\* Lines 418-426.
founded_fields(part) == SelectSeq(dist, LAMBDA f : f \in DOMAIN part)

subparts_manf_code(part) ==
    [f \in {dist[i] : i \in 1..Len(dist)} \cap DOMAIN part |-> subpart_list(part[f])]

subparts_qty(codes) == Max({0} \cup {Len(codes[f]) : f \in DOMAIN codes})

\* Lines 433-439.
ManfList(list, qty) ==
    IF Len(list) = qty THEN list
    ELSE IF Len(list) = 1 THEN [i \in 1..qty |-> list[1]]
    ELSE list \o [i \in 1..(qty - Len(list)) |-> ""]

\* Lines 431-442.
subparts_manf(part, qty) ==
    IF "manf" \in DOMAIN part THEN ManfList(subpart_list(part["manf"]), qty)
    ELSE [i \in 1..qty |-> ""]

\* Lines 478-479 and 500-501.
SetCode(rec, field, code) == Put(Put(rec, field, code.part), field \o "_qty", code.qty)

\* Lines 473-476.
SubpartValue(v, idx, total) == v \o " - p" \o IntToStr(idx) \o "/" \o IntToStr(total)

\* Lines 462-483: the loop over founded_fields for the sub-part of 1-based
\* index idx; a field with no code at that index raises IndexError and is
\* passed over.
RECURSIVE SetCodes(_, _, _, _, _)
SetCodes(rec, fs, codes, idx, val) ==
    IF Len(fs) = 0 THEN rec
    ELSE SetCodes(IF idx <= Len(codes[fs[1]])
                  THEN SetCode(Put(rec, "value", val), fs[1],
                               manf_code_qtypart(codes[fs[1]][idx]))
                  ELSE rec,
                  Tail(fs), codes, idx, val)

\* Lines 495-506.
RECURSIVE SingleCodes(_, _, _)
SingleCodes(rec, fs, codes) ==
    IF Len(fs) = 0 THEN rec
    ELSE SingleCodes(SetCode(rec, fs[1], manf_code_qtypart(codes[fs[1]][1])),
                     Tail(fs), codes)

\* Lines 457-492.  pm is p_manf, out is splitted_components; the outcome is
\* "error" when p_manf is read before it was ever assigned (line 489).
RECURSIVE SplitSubparts(_, _, _, _, _, _, _, _, _)
EmitSubpart(part_ref, part, fs, codes, manfs, qty, idx, pm, out) ==
    IF pm = Unbound THEN [status |-> "error", out |-> out, p_manf |-> pm]
    ELSE SplitSubparts(part_ref, part, fs, codes, manfs, qty, idx + 1, pm,
                       Put(out, part_ref \o SUB_SEPRTR \o IntToStr(idx),
                           Put(SetCodes(part, fs, codes, idx,
                                        SubpartValue(part["value"], idx, qty)),
                               "manf", pm)))

SplitSubparts(part_ref, part, fs, codes, manfs, qty, idx, pm, out) ==
    IF idx > qty THEN [status |-> "ok", out |-> out, p_manf |-> pm]
    ELSE EmitSubpart(part_ref, part, fs, codes, manfs, qty, idx,
                     IF manfs[idx] # REPLICATE_MANF THEN manfs[idx] ELSE pm, out)

\* Lines 450-508.  A part with several sub-parts and no 'value' raises
\* KeyError at line 453 and is passed over (line 508).
SplitQty(part_ref, part, fs, codes, qty, pm, out) ==
    IF qty > 1
    THEN IF "value" \notin DOMAIN part THEN [status |-> "ok", out |-> out, p_manf |-> pm]
         ELSE SplitSubparts(part_ref, part, fs, codes, subparts_manf(part, qty), qty, 1,
                            pm, out)
    ELSE [status |-> "ok", out |-> Put(out, part_ref, SingleCodes(part, fs, codes)),
          p_manf |-> pm]

SplitFound(part_ref, part, fs, codes, pm, out) ==
    SplitQty(part_ref, part, fs, codes, subparts_qty(codes), pm, out)

\* Lines 412-508: the body of the loop for one designator.
SplitPart(part_ref, part, pm, out) ==
    IF \A i \in 1..Len(dist) : dist[i] \notin DOMAIN part
    THEN [status |-> "ok", out |-> Put(out, part_ref, part), p_manf |-> pm]
    ELSE SplitFound(part_ref, part, founded_fields(part), subparts_manf_code(part), pm, out)

(***************************************************************************)
(* Field names (lines 63-107).                                             *)
(***************************************************************************)
\* str.lower()
LowerChar(c, up) == IF up = {} THEN c ELSE LowerCase[CHOOSE i \in up : TRUE]

RECURSIVE lower(_)
lower(s) ==
    IF Len(s) = 0 THEN ""
    ELSE LowerChar(Char(s, 1), {i \in 1..26 : UpperCase[i] = Char(s, 1)})
         \o lower(SubSeq(s, 2, Len(s)))

\* The dict field_name_translations, as its set of <<key, value>> items.
field_name_translations ==
    {<<k, "manf#">> : k \in {"mpn", "pn", "manf_num", "manf-num", "mfg_num", "mfg-num",
                             "mfg#", "man_num", "man-num", "man#", "mnf_num", "mnf-num",
                             "mnf#", "mfr_num", "mfr-num", "mfr#", "part-num", "part_num",
                             "p#", "part#"}}
    \cup {<<k, "manf">> : k \in {"manf", "manufacturer", "mnf", "man", "mfg", "mfr"}}
    \cup {<<d \o sep \o stub, d \o "#">> :
            d \in distributor_dict, sep \in {"", "_", "-"},
            stub \in {"part#", "#", "p#", "pn", "vendor#", "vp#", "vpn", "num"}}
    \cup {<<"variant", "variant">>, <<"version", "variant">>, <<"dnp", "dnp">>,
          <<"nopop", "dnp">>, <<"description", "desc">>}

\* field_name_translations.get(f.lower(), f.lower())
TranslateFrom(name, items) == IF items = {} THEN name ELSE (CHOOSE it \in items : TRUE)[2]

TranslateLower(name) == TranslateFrom(name, {it \in field_name_translations : it[1] = name})

\* Translate with the fault of not lower-casing the name; C5 tells the two apart.
Translate_NoLower(f) == TranslateLower(f)

Translate(f) == TranslateLower(lower(f))

\* Lines 171 and 253.
TranslateAll(list) == [i \in 1..Len(list) |-> Translate(list[i])]

\* Line 166.
FIELDS_MANF ==
    {"manf#", "manf#_qty", "manf"} \cup {d \o "#" : d \in distributor_dict}
    \cup {d \o "#_qty" : d \in distributor_dict}

\* SEPRTR in k
HasSEPRTR(k) == \E i \in 1..Len(k) : Char(k, i) = SEPRTR

(***************************************************************************)
(* group_parts.                                                            *)
(***************************************************************************)
\* hash_fields with the fault of leaving desc out of every hash; C4 tells the
\* two apart.
hash_fields_NoDesc(fields, merge) ==
    [k \in {f \in DOMAIN fields : f \notin FIELDS_MANF \cup {"desc"} /\ ~InList(f, merge)
                                   /\ ~HasSEPRTR(f)}
       |-> fields[k]]

\* Line 190: the fields of a part that make its hash.
hash_fields(fields, merge) ==
    [k \in {f \in DOMAIN fields : f \notin FIELDS_MANF /\ ~InList(f, merge) /\ ~HasSEPRTR(f)}
       |-> fields[k]]

\* Line 191: hash(tuple(sorted(hash_fields.items()))).  The hash is taken to
\* be free of collisions: it is the set of the items hf of hash_fields.
ItemsOf(hf) == {<<k, hf[k]>> : k \in DOMAIN hf}

Hash(fields, merge) == ItemsOf(hash_fields(fields, merge))

\* Lines 195-206: one part added to the groups, which are kept in the
\* insertion order of the dict component_groups.
AddToGroups(groups, h, ref, manf_num) ==
    IF \E i \in 1..Len(groups) : groups[i].h = h
    THEN [i \in 1..Len(groups) |->
            IF groups[i].h = h
            THEN [groups[i] EXCEPT !.refs = Append(@, ref),
                                   !.manf_nums = @ \cup {manf_num}]
            ELSE groups[i]]
    ELSE Append(groups, [h |-> h, refs |-> <<ref>>, manf_nums |-> {manf_num}])

\* Lines 180-206.
RECURSIVE HashParts(_, _, _, _)
HashParts(comps, ord, merge, groups) ==
    IF Len(ord) = 0 THEN groups
    ELSE HashParts(comps, Tail(ord), merge,
                   AddToGroups(groups, Hash(comps[ord[1]], merge), ord[1],
                               Get(comps[ord[1]], "manf#")))

\* Lines 239-243: the members of grp whose manf# is manf_num.
RECURSIVE RefsWithManfNum(_, _, _)
RefsWithManfNum(comps, rs, manf_num) ==
    IF Len(rs) = 0 THEN <<>>
    ELSE (IF Get(comps[rs[1]], "manf#") = manf_num THEN <<rs[1]>> ELSE <<>>)
         \o RefsWithManfNum(comps, Tail(rs), manf_num)

\* SubGroups with the fault of leaving out the members that have no manf#
\* (a comparison that None never satisfies); C1 tells the two apart.
SubGroups_NoneLost(comps, rs, manf_nums) ==
    [i \in 1..Len(manf_nums) |->
        [refs |-> IF manf_nums[i] = None THEN <<>>
                  ELSE RefsWithManfNum(comps, rs, manf_nums[i]),
         manf_nums |-> {manf_nums[i]}, fields |-> EmptyDict]]

\* Lines 234-245: one sub-group for each manf# of the set, which is
\* iterated in the order manf_nums.
SubGroups(comps, rs, manf_nums) ==
    [i \in 1..Len(manf_nums) |->
        [refs |-> RefsWithManfNum(comps, rs, manf_nums[i]), manf_nums |-> {manf_nums[i]},
         fields |-> EmptyDict]]

\* The orders in which a set may be iterated.
Orders(S) == {f \in [1..Cardinality(S) -> S] : \A x \in S : \E i \in DOMAIN f : f[i] = x}

\* SplitGroup with the fault of also splitting a group of two manf# values of
\* which one is None; C3 tells the two apart.
SplitGroup_SplitWithNone(comps, grp) ==
    IF Cardinality(grp.manf_nums) = 1
    THEN {<<[refs |-> grp.refs, manf_nums |-> grp.manf_nums, fields |-> EmptyDict]>>}
    ELSE {SubGroups(comps, grp.refs, manf_nums) : manf_nums \in Orders(grp.manf_nums)}

\* Lines 226-245, for one provisional group: the lists of groups that may be
\* appended to new_component_groups, one for each iteration order of the set.
SplitGroup(comps, grp) ==
    IF Cardinality(grp.manf_nums) = 1
       \/ (Cardinality(grp.manf_nums) = 2 /\ None \in grp.manf_nums)
    THEN {<<[refs |-> grp.refs, manf_nums |-> grp.manf_nums, fields |-> EmptyDict]>>}
    ELSE {SubGroups(comps, grp.refs, manf_nums) : manf_nums \in Orders(grp.manf_nums)}

\* Lines 224-245.
RECURSIVE SplitGroups(_, _)
SplitGroups(comps, groups) ==
    IF Len(groups) = 0 THEN {<<>>}
    ELSE {a \o b : a \in SplitGroup(comps, groups[1]), b \in SplitGroups(comps, Tail(groups))}

\* v.get(f) or ''
GetOrEmpty(fields, f) == IF Get(fields, f) = None THEN "" ELSE Get(fields, f)

\* The keys of Counter(values_field), in the order of their first occurrence.
RECURSIVE Distinct(_)
AppendNew(rest, x) == IF InList(x, rest) THEN rest ELSE Append(rest, x)

Distinct(list) ==
    IF Len(list) = 0 THEN <<>>
    ELSE AppendNew(Distinct(SubSeq(list, 1, Len(list) - 1)), list[Len(list)])

\* [r for r in grp.refs if components[r].get(f) == v_g]
RECURSIVE RefsWithValue(_, _, _, _)
RefsWithValue(comps, rs, f, v_g) ==
    IF Len(rs) = 0 THEN <<>>
    ELSE (IF Get(comps[rs[1]], f) = v_g THEN <<rs[1]>> ELSE <<>>)
         \o RefsWithValue(comps, Tail(rs), f, v_g)

\* Lines 258-260: the dict ocurrences, as the sequence of its items [t, r].
OcurrencesOf(comps, rs, f, keys) ==
    [i \in 1..Len(keys) |-> [t |-> keys[i], r |-> RefsWithValue(comps, rs, f, keys[i])]]

Ocurrences(comps, rs, f) ==
    OcurrencesOf(comps, rs, f, Distinct([i \in 1..Len(rs) |-> GetOrEmpty(comps[rs[i]], f)]))

\* Line 262: the composite value of a merged field; collapsed holds the
\* outcomes of collapse_refs for the items of ocurrences.
MergedValue(ocurrences, collapsed) ==
    Join(SGROUP_SEPRTR,
         [i \in 1..Len(ocurrences) |->
            collapsed[i].text \o SEPRTR \o " " \o ocurrences[i].t])

\* Lines 261-264: the outcome of the calls of collapse_refs and the
\* components after the assignment of line 264.
AssignMerged(comps, rs, f, ocurrences, collapsed) ==
    IF Len(ocurrences) <= 1 THEN [status |-> "ok", comps |-> comps]
    ELSE IF \E i \in 1..Len(collapsed) : collapsed[i].status # "ok"
    THEN [status |-> collapsed[Min({i \in 1..Len(collapsed) : collapsed[i].status # "ok"})].status,
          comps |-> comps]
    ELSE [status |-> "ok",
          comps |-> [r \in DOMAIN comps |->
                       IF InList(r, rs) THEN Put(comps[r], f, MergedValue(ocurrences, collapsed))
                       ELSE comps[r]]]

MergeFieldWith(comps, rs, f, ocurrences) ==
    AssignMerged(comps, rs, f, ocurrences,
                 [i \in 1..Len(ocurrences) |-> collapse_refs(ocurrences[i].r)])

\* Lines 258-264, for one group and one field.
MergeField(comps, rs, f) == MergeFieldWith(comps, rs, f, Ocurrences(comps, rs, f))

\* Lines 257-264, for one group; one is the outcome for the first field.
RECURSIVE MergeFields(_, _, _)
MergeFieldsAfter(one, rs, merge) ==
    IF one.status # "ok" THEN one ELSE MergeFields(one.comps, rs, Tail(merge))

MergeFields(comps, rs, merge) ==
    IF Len(merge) = 0 THEN [status |-> "ok", comps |-> comps]
    ELSE MergeFieldsAfter(MergeField(comps, rs, merge[1]), rs, merge)

\* Lines 252-264; one is the outcome for the first group.
RECURSIVE MergeGroups(_, _, _)
MergeGroupsAfter(one, groups, merge) ==
    IF one.status # "ok" THEN one ELSE MergeGroups(one.comps, Tail(groups), merge)

MergeGroups(comps, groups, merge) ==
    IF Len(groups) = 0 THEN [status |-> "ok", comps |-> comps]
    ELSE MergeGroupsAfter(MergeFields(comps, groups[1].refs, merge), groups, merge)

\* Lines 275-283, for one key: the members are scanned in order; seen is
\* whether grp_fields holds the key, val its value, and ok turns FALSE at the
\* exit of line 281.
SeenValue(acc, val) ==
    IF val = None THEN acc
    ELSE IF acc.seen /\ acc.val # ""      \* if grp_fields.get(key):
    THEN [acc EXCEPT !.ok = (acc.val = val)]
    ELSE [ok |-> TRUE, seen |-> TRUE, val |-> val]

RECURSIVE PropagateKey(_, _, _, _)
PropagateKey(comps, rs, key, acc) ==
    IF Len(rs) = 0 \/ ~acc.ok THEN acc
    ELSE PropagateKey(comps, Tail(rs), key, SeenValue(acc, Get(comps[rs[1]], key)))

GroupKeys(comps, rs) == UNION {DOMAIN comps[rs[i]] : i \in 1..Len(rs)}

\* Lines 274-284, for one group: its field map, and whether no exit happened.
GroupFieldsOf(res) ==
    [ok |-> \A k \in DOMAIN res : res[k].ok,
     fields |-> [k \in {x \in DOMAIN res : res[x].seen} |-> res[k].val]]

GroupFields(comps, rs) ==
    GroupFieldsOf([k \in GroupKeys(comps, rs) |->
                     PropagateKey(comps, rs, k, [ok |-> TRUE, seen |-> FALSE, val |-> ""])])

(***************************************************************************)
(* group_parts as a state machine: one action for each of its passes.      *)
(***************************************************************************)
\* Lines 171-174.
CheckedMerge(merge) ==
    /\ fields_merge' = merge
    /\ pc' = IF \E c \in FIELDS_MANF : InList(c, merge) THEN "exit_merge" ELSE "hash"

GP_CheckMerge ==
    /\ pc = "group_parts"
    /\ CheckedMerge(TranslateAll(fields_merge))
    /\ UNCHANGED <<components, components_in, order, component_groups, new_component_groups>>
    /\ UNCHANGED <<subpart_split_vars, refs_vars>>
    /\ UNCHANGED <<decode_vars, sort_vars, dnp_vars>>

\* Lines 180-206.
GP_Hash ==
    /\ pc = "hash"
    /\ component_groups' = HashParts(components, order, fields_merge, <<>>)
    /\ pc' = "refine"
    /\ UNCHANGED <<components, components_in, order, fields_merge, new_component_groups>>
    /\ UNCHANGED <<subpart_split_vars, refs_vars>>
    /\ UNCHANGED <<decode_vars, sort_vars, dnp_vars>>

\* Lines 224-245.
GP_Refine ==
    /\ pc = "refine"
    /\ new_component_groups' \in SplitGroups(components, component_groups)
    /\ pc' = "merge"
    /\ UNCHANGED <<components, components_in, order, fields_merge, component_groups>>
    /\ UNCHANGED <<subpart_split_vars, refs_vars>>
    /\ UNCHANGED <<decode_vars, sort_vars, dnp_vars>>

\* Lines 252-264.
Merged(res) ==
    /\ components' = res.comps
    /\ pc' = IF res.status = "ok" THEN "propagate" ELSE res.status

GP_Merge ==
    /\ pc = "merge"
    /\ Merged(MergeGroups(components, new_component_groups, TranslateAll(fields_merge)))
    /\ UNCHANGED <<components_in, order, fields_merge, component_groups, new_component_groups>>
    /\ UNCHANGED <<subpart_split_vars, refs_vars>>
    /\ UNCHANGED <<decode_vars, sort_vars, dnp_vars>>

\* Lines 273-291.
Propagated(res) ==
    IF \A i \in 1..Len(res) : res[i].ok
    THEN /\ new_component_groups' =
               [i \in 1..Len(res) |-> [new_component_groups[i] EXCEPT !.fields = res[i].fields]]
         /\ pc' = "returned"
    ELSE /\ pc' = "exit_mismatch"
         /\ UNCHANGED new_component_groups

GP_Propagate ==
    /\ pc = "propagate"
    /\ Propagated([i \in 1..Len(new_component_groups) |->
                     GroupFields(components, new_component_groups[i].refs)])
    /\ UNCHANGED <<components, components_in, order, fields_merge, component_groups>>
    /\ UNCHANGED <<subpart_split_vars, refs_vars>>
    /\ UNCHANGED <<decode_vars, sort_vars, dnp_vars>>

(***************************************************************************)
(* subpart_split as a state machine: one action for each designator.       *)
(***************************************************************************)
SplitDone(res) ==
    /\ splitted_components' = res.out
    /\ p_manf' = res.p_manf
    /\ IF res.status = "ok"
       THEN part_index' = part_index + 1 /\ pc' = pc
       ELSE part_index' = part_index /\ pc' = "split_error"

\* Lines 411-508, one iteration.
SS_Part ==
    /\ pc = "subpart_split"
    /\ part_index <= Len(parts_order)
    /\ SplitDone(SplitPart(parts_order[part_index], parts[parts_order[part_index]],
                           p_manf, splitted_components))
    /\ UNCHANGED <<parts, parts_order>>
    /\ UNCHANGED <<group_parts_vars, refs_vars>>
    /\ UNCHANGED <<decode_vars, sort_vars, dnp_vars>>

\* Line 510.
SS_Return ==
    /\ pc = "subpart_split"
    /\ part_index > Len(parts_order)
    /\ pc' = "split_returned"
    /\ UNCHANGED <<subpart_split_vars, group_parts_vars, refs_vars>>
    /\ UNCHANGED <<decode_vars, sort_vars, dnp_vars>>

(***************************************************************************)
(* collapse_refs and split_refs as steps; the text collapse_refs returns   *)
(* is then passed to split_refs.                                           *)
(***************************************************************************)
Collapsed(res) ==
    /\ text' = res.text
    /\ pc' = IF res.status = "ok" THEN "split_refs" ELSE "collapse_" \o res.status

CR_Collapse ==
    /\ pc = "collapse_refs"
    /\ Collapsed(collapse_refs(refs))
    /\ UNCHANGED <<refs, tokens, expanded>>
    /\ UNCHANGED <<group_parts_vars, subpart_split_vars>>
    /\ UNCHANGED <<decode_vars, sort_vars, dnp_vars>>

SR_Split ==
    /\ pc = "split_refs"
    /\ expanded' = split_refs(text)
    /\ pc' = "expanded"
    /\ UNCHANGED <<refs, tokens, text>>
    /\ UNCHANGED <<group_parts_vars, subpart_split_vars>>
    /\ UNCHANGED <<decode_vars, sort_vars, dnp_vars>>

(***************************************************************************)
(* The variables of the functions that are not running.                    *)
(***************************************************************************)
IdleGroupParts ==
    /\ components = EmptyDict /\ components_in = EmptyDict /\ order = <<>>
    /\ fields_merge = <<>> /\ component_groups = <<>> /\ new_component_groups = <<>>

IdleSplit ==
    /\ parts = EmptyDict /\ parts_order = <<>> /\ part_index = 0 /\ p_manf = Unbound
    /\ splitted_components = EmptyDict

NoTokens == [toks |-> <<>>, sep |-> ","]

IdleRefs ==
    /\ refs = <<>> /\ tokens = NoTokens /\ text = ""
    /\ expanded = [status |-> "", refs |-> <<>>]

NoCodes == [items |-> <<>>, sep |-> ";"]

IdleDecode ==
    /\ code_items = NoCodes /\ code_text = "" /\ code_list = <<>> /\ decoded = <<>>

IdleSort ==
    /\ groups_in = <<>> /\ groups_order = <<>> /\ sorted_groups = <<>> /\ resorted_groups = <<>>

IdleDnp ==
    /\ raw_components = EmptyDict /\ variant = "" /\ accepted_components = EmptyDict

IdleOthers == IdleDecode /\ IdleSort /\ IdleDnp

(***************************************************************************)
(* The RecordSets and merge-field lists group_parts is run on.             *)
(***************************************************************************)
Absent == "<absent>"     \* in the choices below: the part does not hold the field

DescChoices == {Absent, "d"}
ManfNumChoices == {Absent, "A", "B"}
ManfChoices == {"", "X"}
MergeLists == {<<>>, <<"Desc">>, <<"MPN">>, <<"mouser-pn">>, <<"Desc", "Manf">>}

WithField(fields, key, choice) == IF choice = Absent THEN fields ELSE Put(fields, key, choice)

PartRecords ==
    {WithField(WithField(WithField([k \in {"value"} |-> "1k"],
                                   "desc", d), "manf#", n), "manf", m) :
        d \in DescChoices, n \in ManfNumChoices, m \in ManfChoices}

PartRefs == {"R" \o IntToStr(i) : i \in 1..NumParts}

\* The first designator also holds a field private to a tool.
WithNote(comps) ==
    [r \in DOMAIN comps |-> IF r = "R1" THEN Put(comps[r], "kicost:note", "n") ELSE comps[r]]

RecordSets == {WithNote(comps) : comps \in [PartRefs -> PartRecords]}

Init ==
    /\ pc = "group_parts"
    /\ components \in RecordSets
    /\ components_in = components
    /\ order = [i \in 1..NumParts |-> "R" \o IntToStr(i)]
    /\ fields_merge \in MergeLists
    /\ component_groups = <<>>
    /\ new_component_groups = <<>>
    /\ IdleSplit /\ IdleRefs /\ IdleOthers

Next == GP_CheckMerge \/ GP_Hash \/ GP_Refine \/ GP_Merge \/ GP_Propagate

Spec == Init /\ [][Next]_vars

(***************************************************************************)
(* The RecordSets subpart_split is run on.                                 *)
(***************************************************************************)
SplitValueChoices == {Absent, "v"}
SplitManfNumChoices == {Absent, "3:G1", "G1;G2;G3"}
SplitMouserChoices == {Absent, "M1;M2"}
SplitManfChoices == {Absent, "X", "X;~", "~;Y"}

SplitRecords ==
    {WithField(WithField(WithField(WithField([k \in {"desc"} |-> "d"],
        "value", v), "manf#", n), "mouser#", d), "manf", m) :
        v \in SplitValueChoices, n \in SplitManfNumChoices,
        d \in SplitMouserChoices, m \in SplitManfChoices}

SplitRefs == {"U" \o IntToStr(i) : i \in 1..NumSplitParts}

InitSplit ==
    /\ pc = "subpart_split"
    /\ parts \in [SplitRefs -> SplitRecords]
    /\ parts_order = [i \in 1..NumSplitParts |-> "U" \o IntToStr(i)]
    /\ part_index = 1
    /\ p_manf = Unbound
    /\ splitted_components = EmptyDict
    /\ IdleGroupParts /\ IdleRefs /\ IdleOthers

NextSplit == SS_Part \/ SS_Return

SpecSplit == InitSplit /\ [][NextSplit]_vars

(***************************************************************************)
(* The lists of references collapse_refs is run on.                        *)
(***************************************************************************)
RefPool == {"R1", "R2", "R3", "R4", "R10", "R01", "R2#1", "R2.1", "C1"}

Example == <<"R3", "R4", "R7", "R8", "R9", "R10", "R11", "R13", "R14">>

RefLists == UNION {[1..n -> RefPool] : n \in 0..MaxRefs} \cup {Example}

InitCollapse ==
    /\ pc = "collapse_refs"
    /\ refs \in RefLists
    /\ tokens = NoTokens /\ text = "" /\ expanded = [status |-> "", refs |-> <<>>]
    /\ IdleGroupParts /\ IdleSplit /\ IdleOthers

NextCollapse == CR_Collapse \/ SR_Split

SpecCollapse == InitCollapse /\ [][NextCollapse]_vars

(***************************************************************************)
(* The texts split_refs is run on, written from tokens.                    *)
(***************************************************************************)
TokenPrefixes == {"D", "d", "LED"}
TokenRanges == {<<33, 36>>, <<9, 11>>, <<7, 7>>}
TokenLists == {<<17, 18, 19, 20>>, <<5, 3>>}

TokenPool ==
    {[kind |-> k, prefix |-> p, nums |-> n] :
        k \in {"range", "short"}, p \in TokenPrefixes, n \in TokenRanges}
    \cup {[kind |-> k, prefix |-> p, nums |-> n] :
        k \in {"slash", "backslash"}, p \in TokenPrefixes, n \in TokenLists}

\* The numbers of a list token after its first, each behind the separator.
RECURSIVE ListTail(_, _)
ListTail(sep, nums) ==
    IF Len(nums) = 0 THEN "" ELSE sep \o IntToStr(nums[1]) \o ListTail(sep, Tail(nums))

TokenText(t) ==
    IF t.kind = "range"
    THEN t.prefix \o IntToStr(t.nums[1]) \o "-" \o t.prefix \o IntToStr(t.nums[2])
    ELSE IF t.kind = "short"
    THEN t.prefix \o IntToStr(t.nums[1]) \o "-" \o IntToStr(t.nums[2])
    ELSE t.prefix \o IntToStr(t.nums[1])
         \o ListTail(IF t.kind = "slash" THEN "/" ELSE "\\", Tail(t.nums))

TextOf(tk) == Join(tk.sep, [i \in 1..Len(tk.toks) |-> TokenText(tk.toks[i])])

TokenTexts ==
    {[toks |-> l, sep |-> s] :
        l \in UNION {[1..n -> TokenPool] : n \in 1..MaxTokens}, s \in {",", ";"}}

InitExpand ==
    /\ pc = "split_refs"
    /\ tokens \in TokenTexts
    /\ text = TextOf(tokens)
    /\ refs = <<>> /\ expanded = [status |-> "", refs |-> <<>>]
    /\ IdleGroupParts /\ IdleSplit /\ IdleOthers

NextExpand == SR_Split

SpecExpand == InitExpand /\ [][NextExpand]_vars

(***************************************************************************)
(* Properties of group_parts (under Spec).                                 *)
(***************************************************************************)
\* The set of the elements of a list.
SeqSet(list) == {list[i] : i \in 1..Len(list)}

\* The places <<group, index>> at which designator r is a member of a group.
RefPlaces(groups, r) ==
    {p \in UNION {{<<g, i>> : i \in 1..Len(groups[g].refs)} : g \in 1..Len(groups)} :
        groups[p[1]].refs[p[2]] = r}

\* C1: when group_parts returns, every designator of the RecordSet passed is
\* in the refs of exactly one returned group, exactly once, and no returned
\* group holds a designator that is not in the RecordSet.
C1_PartitionLaw ==
    pc = "returned" =>
        /\ \A r \in DOMAIN components_in :
              Cardinality(RefPlaces(new_component_groups, r)) = 1
        /\ \A g \in 1..Len(new_component_groups) :
              SeqSet(new_component_groups[g].refs) \subseteq DOMAIN components_in

\* group_parts returned, with a merge-field list, several groups of which
\* one has several members and one was split off by its manf#.
C1_Witness ==
    /\ pc = "returned"
    /\ fields_merge # <<>>
    /\ Len(new_component_groups) >= 2
    /\ \E g \in 1..Len(new_component_groups) : Len(new_component_groups[g].refs) >= 2
    /\ Len(component_groups) < Len(new_component_groups)

\* The members of a group agree on every field not in the merge-field list
\* that they hold.
MembersAgree(grp) ==
    \A r1 \in SeqSet(grp.refs), r2 \in SeqSet(grp.refs) :
        \A key \in (DOMAIN components[r1] \cap DOMAIN components[r2]) \ SeqSet(fields_merge) :
            components[r1][key] = components[r2][key]

\* C2: whenever group_parts returns a group, all its members that hold a
\* value for a field that is not merged hold the same value (a member whose
\* value differs from the value of an earlier member, the empty string
\* included, makes group_parts abort instead).
C2_ConflictDetection ==
    pc = "returned" =>
        \A g \in 1..Len(new_component_groups) : MembersAgree(new_component_groups[g])

\* The manf# values of the designators rs, taken from the RecordSet passed.
ManfNumsOf(rs) == {Get(components_in[r], "manf#") : r \in SeqSet(rs)}

\* The returned groups that hold a member of the provisional group grp.
GroupsFrom(grp) ==
    {g \in 1..Len(new_component_groups) :
        SeqSet(new_component_groups[g].refs) \cap SeqSet(grp.refs) # {}}

\* The manf# cardinality rule for one provisional group.
CardinalityRule(grp) ==
    IF Cardinality(ManfNumsOf(grp.refs)) = 1
       \/ (Cardinality(ManfNumsOf(grp.refs)) = 2 /\ None \in ManfNumsOf(grp.refs))
    THEN /\ Cardinality(GroupsFrom(grp)) = 1
         /\ \A g \in GroupsFrom(grp) : new_component_groups[g].refs = grp.refs
    ELSE /\ Cardinality(GroupsFrom(grp)) = Cardinality(ManfNumsOf(grp.refs))
         /\ \A v \in ManfNumsOf(grp.refs) :
               Cardinality({g \in GroupsFrom(grp) :
                              SeqSet(new_component_groups[g].refs) =
                                 {r \in SeqSet(grp.refs) : Get(components_in[r], "manf#") = v}})
                  = 1

\* C3: once the provisional groups are refined, a provisional group with one
\* manf# value, or with two of which one is None, is one group with all its
\* members; every other provisional group is replaced by exactly one sub-group
\* for each of its manf# values (None included), which holds exactly the
\* members whose manf# is that value.
C3_ManfNumCardinalityRule ==
    pc \in {"merge", "propagate", "returned", "exit_mismatch"} =>
        \A p \in 1..Len(component_groups) : CardinalityRule(component_groups[p])

\* The groups were refined and a provisional group had the three manf# values
\* A, B and None.
C3_Witness ==
    /\ pc = "merge"
    /\ \E p \in 1..Len(component_groups) :
          ManfNumsOf(component_groups[p].refs) = {"A", "B", None}
    /\ Len(new_component_groups) = 3

\* The (field, value) pairs of a record over the fields that are not
\* manufacturer/distributor fields, not private to a tool and not in excluded.
ComparedPairs(fields, excluded) ==
    {<<k, fields[k]>> : k \in {f \in DOMAIN fields :
                                 f \notin FIELDS_MANF /\ ~HasSEPRTR(f) /\ f \notin excluded}}

\* C4, as stated: two designators are members of the same returned group
\* only if their records hold the same (field, value) pairs over all fields
\* that are not manufacturer/distributor fields and not private to a tool.
C4_GroupingSoundness_AsStated ==
    pc = "returned" =>
        \A g \in 1..Len(new_component_groups) :
            \A r1 \in SeqSet(new_component_groups[g].refs),
               r2 \in SeqSet(new_component_groups[g].refs) :
                ComparedPairs(components_in[r1], {}) = ComparedPairs(components_in[r2], {})

\* C4, amended: two designators are members of the same returned group only
\* if their records hold the same (field, value) pairs over all fields that
\* are not manufacturer/distributor fields, not private to a tool and not in
\* the normalised merge-field list.
C4_GroupingSoundness ==
    pc = "returned" =>
        \A g \in 1..Len(new_component_groups) :
            \A r1 \in SeqSet(new_component_groups[g].refs),
               r2 \in SeqSet(new_component_groups[g].refs) :
                ComparedPairs(components_in[r1], SeqSet(fields_merge))
                    = ComparedPairs(components_in[r2], SeqSet(fields_merge))

\* group_parts returned a group that holds R1, which has a private field and
\* a desc, and R2, which has neither, desc being a merge field.
C4_Witness ==
    /\ pc = "returned"
    /\ fields_merge = <<"desc">>
    /\ "desc" \in DOMAIN components_in["R1"]
    /\ "desc" \notin DOMAIN components_in["R2"]
    /\ \E g \in 1..Len(new_component_groups) :
          {"R1", "R2"} \subseteq SeqSet(new_component_groups[g].refs)

\* C5: when the merge-field list passed holds, at any place, a name that
\* stands for manf#, for a distributor's part number or for manf (the alias
\* MPN in upper case, the alias mouser-pn, Manf with a capital), group_parts
\* aborts in its first step, with no component hashed or grouped and no
\* record modified.
C5_MergeFieldRejection ==
    [][(/\ pc = "group_parts"
        /\ \E i \in 1..Len(fields_merge) : fields_merge[i] \in {"MPN", "mouser-pn", "Manf"})
       => (/\ pc' = "exit_merge"
           /\ components' = components_in
           /\ component_groups' = <<>>
           /\ new_component_groups' = <<>>)]_vars

\* group_parts aborted on the merge field manf#, which was passed as MPN.
C5_Witness ==
    /\ pc = "exit_merge"
    /\ fields_merge = <<"manf#">>
    /\ components = components_in
    /\ component_groups = <<>>

(***************************************************************************)
(* Properties of subpart_split (under SpecSplit).                          *)
(***************************************************************************)
\* C6: when subpart_split returns, for every record under designator d that
\* holds a value and whose manufacturer/distributor code fields split into
\* lists of greatest length N > 1, the output holds d#1 .. d#N and not d,
\* and the record d#i does not hold a manufacturer/distributor field whose
\* list has fewer than i codes.
C6_SubpartSplitOmitsAbsent ==
    pc = "split_returned" =>
        \A d \in DOMAIN parts :
            ("value" \in DOMAIN parts[d] /\ subparts_qty(subparts_manf_code(parts[d])) > 1) =>
                /\ d \notin DOMAIN splitted_components
                /\ \A i \in 1..subparts_qty(subparts_manf_code(parts[d])) :
                      /\ (d \o "#" \o IntToStr(i)) \in DOMAIN splitted_components
                      /\ \A f \in DOMAIN subparts_manf_code(parts[d]) :
                            Len(subparts_manf_code(parts[d])[f]) < i =>
                                f \notin DOMAIN splitted_components[d \o "#" \o IntToStr(i)]

(***************************************************************************)
(* Properties of collapse_refs and split_refs (under SpecCollapse).        *)
(***************************************************************************)
\* The number of a reference made of a prefix and a plain integer, -1 for
\* any other reference.
PlainNumber(prefix, ref) ==
    IF /\ Len(ref) > Len(prefix)
       /\ SubSeq(ref, 1, Len(prefix)) = prefix
       /\ AllChars(Digits, SubSeq(ref, Len(prefix) + 1, Len(ref)))
    THEN StrToInt(SubSeq(ref, Len(prefix) + 1, Len(ref)))
    ELSE -1

\* The prefixes of the references of the lists.
RefPrefixes == {"R", "C"}

\* Whether an entry of the text returned is a range of the prefix.
IsRangeOf(prefix, entry) ==
    /\ Len(SplitChars({"-"}, entry)) = 2
    /\ PlainNumber(prefix, SplitChars({"-"}, entry)[1]) >= 0
    /\ PlainNumber(prefix, SplitChars({"-"}, entry)[2]) >= 0

\* C7: in the text collapse_refs returns, a range prefix<a>-prefix<b> stands
\* only for integers that are all in the list as plain-integer references,
\* and every reference of the list whose number is not a plain integer is an
\* entry of its own.
C7_NoRangeOverSubparts ==
    pc \in {"split_refs", "expanded"} =>
        /\ \A entry \in SeqSet(SplitChars({","}, text)) : \A prefix \in RefPrefixes :
              IsRangeOf(prefix, entry) =>
                  \A n \in PlainNumber(prefix, SplitChars({"-"}, entry)[1])
                           ..PlainNumber(prefix, SplitChars({"-"}, entry)[2]) :
                      \E i \in 1..Len(refs) : PlainNumber(prefix, refs[i]) = n
        /\ \A i \in 1..Len(refs) :
              (\A prefix \in RefPrefixes : PlainNumber(prefix, refs[i]) = -1) =>
                  refs[i] \in SeqSet(SplitChars({","}, text))

\* The list is made of distinct references of one prefix with plain integers
\* in their usual spelling.
PlainDistinct(prefix, list) ==
    /\ Len(list) > 0
    /\ \A i \in 1..Len(list) :
          /\ PlainNumber(prefix, list[i]) >= 0
          /\ list[i] = prefix \o IntToStr(PlainNumber(prefix, list[i]))
    /\ \A i \in 1..Len(list), k \in 1..Len(list) : list[i] = list[k] => i = k

\* The first and last number of the maximal run of consecutive numbers of S
\* that n is in.
RunFirst(S, n) == Min({m \in S : m <= n /\ \A k \in m..n : k \in S})

RunLast(S, n) == Max({m \in S : m >= n /\ \A k \in n..m : k \in S})

\* The entries for the numbers of S from n up to last: a run of three or more
\* is one entry, written at its first number; any other number is an entry.
RECURSIVE EntriesFrom(_, _, _, _)
EntriesFrom(prefix, S, n, last) ==
    IF n > last THEN <<>>
    ELSE (IF n \notin S THEN <<>>
          ELSE IF RunLast(S, n) - RunFirst(S, n) >= 2
          THEN IF n = RunFirst(S, n)
               THEN <<prefix \o IntToStr(n) \o "-" \o prefix \o IntToStr(RunLast(S, n))>>
               ELSE <<>>
          ELSE <<prefix \o IntToStr(n)>>)
         \o EntriesFrom(prefix, S, n + 1, last)

ExpectedText(prefix, list) ==
    Join(",", EntriesFrom(prefix, {PlainNumber(prefix, list[i]) : i \in 1..Len(list)}, 0,
                          Max({PlainNumber(prefix, list[i]) : i \in 1..Len(list)})))

\* C8: for a list of distinct references of one letter prefix with plain
\* integers, collapse_refs returns, in ascending order and joined by commas,
\* one entry prefix<first>-prefix<last> for each maximal run of three or more
\* consecutive integers and one entry prefix<n> for every other number.
C8_CollapseCorrectness ==
    \A prefix \in RefPrefixes :
        (pc # "collapse_refs" /\ PlainDistinct(prefix, refs)) =>
            pc \in {"split_refs", "expanded"} /\ text = ExpectedText(prefix, refs)

\* collapse_refs returned R3,R4,R7-R11,R13,R14 for the list of the example.
C8_Witness ==
    /\ pc = "split_refs"
    /\ refs = Example
    /\ text = "R3,R4,R7-R11,R13,R14"

\* What a list of references denotes: the pairs of prefix and number.
Denoted(list) ==
    {<<prefix, PlainNumber(prefix, list[i])>> : prefix \in RefPrefixes, i \in 1..Len(list)}
        \ {<<prefix, -1>> : prefix \in RefPrefixes}

\* C9: for a list, not empty, of references made of a letter prefix and an
\* integer, split_refs of the text collapse_refs returns denotes exactly the
\* references of the list, none added and none lost.
C9_RoundTrip ==
    (/\ pc = "expanded"
     /\ Len(refs) > 0
     /\ \A i \in 1..Len(refs) : \E prefix \in RefPrefixes : PlainNumber(prefix, refs[i]) >= 0)
        => expanded.status = "ok" /\ Denoted(expanded.refs) = Denoted(refs)

(***************************************************************************)
(* Properties of split_refs (under SpecExpand).                            *)
(***************************************************************************)
\* The references a token stands for.
TokenRefs(t) ==
    IF t.kind \in {"range", "short"}
    THEN [i \in 1..(t.nums[2] - t.nums[1] + 1) |-> t.prefix \o IntToStr(t.nums[1] + i - 1)]
    ELSE [i \in 1..Len(t.nums) |-> t.prefix \o IntToStr(t.nums[i])]

RECURSIVE TokensRefs(_)
TokensRefs(toks) ==
    IF Len(toks) = 0 THEN <<>> ELSE TokenRefs(toks[1]) \o TokensRefs(Tail(toks))

\* C10: split_refs expands a token P<a>-P<b> or P<a>-<b> with a <= b to
\* P<a>, P<a+1>, ..., P<b>, a token P<a>/<b>/<c>... (or with backslashes) to
\* P<a>, P<b>, P<c>, ..., and a text of tokens separated by ',' or ';' to the
\* expansions of its tokens, in order.
C10_ExpandCorrectness ==
    pc = "expanded" =>
        expanded = [status |-> "ok", refs |-> TokensRefs(tokens.toks)]

\* split_refs expanded a range of the short form and a list with backslashes,
\* separated by ';'.
C10_Witness ==
    /\ pc = "expanded"
    /\ text = "D33-36;LED17\\18\\19\\20"
    /\ expanded.refs = <<"D33", "D34", "D35", "D36", "LED17", "LED18", "LED19", "LED20">>

(***************************************************************************)
(* subpart_list and manf_code_qtypart as steps: the field value is split   *)
(* into its codes and each code is decoded (lines 419-421 and 464-466 of   *)
(* subpart_split apply the two in this order).                             *)
(***************************************************************************)
\* Line 555.
DC_List ==
    /\ pc = "subpart_list"
    /\ code_list' = subpart_list(code_text)
    /\ pc' = "manf_code_qtypart"
    /\ UNCHANGED <<code_items, code_text, decoded>>
    /\ UNCHANGED <<group_parts_vars, subpart_split_vars, refs_vars>>
    /\ UNCHANGED <<sort_vars, dnp_vars>>

\* Lines 558-607, for each element of the list.
DC_Decode ==
    /\ pc = "manf_code_qtypart"
    /\ decoded' = [i \in 1..Len(code_list) |-> manf_code_qtypart(code_list[i])]
    /\ pc' = "decoded"
    /\ UNCHANGED <<code_items, code_text, code_list>>
    /\ UNCHANGED <<group_parts_vars, subpart_split_vars, refs_vars>>
    /\ UNCHANGED <<sort_vars, dnp_vars>>

(***************************************************************************)
(* The field values the decoder is run on, written from codes: a code is   *)
(* a part code alone ("bare"), or a quantity and a part code around the    *)
(* quantity separator, in either order, with blanks of padding.            *)
(***************************************************************************)
MaxCodes == 2

CodeParts == {"X", "G1.5", "AB\\:CD", "AB\\;CD", "AB\\,CD"}
CodeQtys == {[qty |-> "7", pad |-> ""], [qty |-> "4.5", pad |-> " "], [qty |-> "", pad |-> ""]}

CodePool ==
    {[form |-> "bare", qty |-> "", pad |-> "", part |-> p] : p \in CodeParts}
    \cup {[form |-> f, qty |-> q.qty, pad |-> q.pad, part |-> p] :
            f \in {"qty_first", "part_first"}, q \in CodeQtys, p \in CodeParts}

CodeText(c) ==
    IF c.form = "bare" THEN c.part
    ELSE IF c.form = "qty_first" THEN c.pad \o c.qty \o c.pad \o ":" \o c.pad \o c.part
    ELSE c.part \o c.pad \o ":" \o c.pad \o c.pad \o c.pad \o c.qty

CodesText(cs) == Join(cs.sep, [i \in 1..Len(cs.items) |-> CodeText(cs.items[i])])

CodeLists ==
    {[items |-> l, sep |-> s] :
        l \in UNION {[1..n -> CodePool] : n \in 1..MaxCodes}, s \in {";", ","}}

InitDecode ==
    /\ pc = "subpart_list"
    /\ code_items \in CodeLists
    /\ code_text = CodesText(code_items)
    /\ code_list = <<>> /\ decoded = <<>>
    /\ IdleGroupParts /\ IdleSplit /\ IdleRefs /\ IdleSort /\ IdleDnp

NextDecode == DC_List \/ DC_Decode

SpecDecode == InitDecode /\ [][NextDecode]_vars

(***************************************************************************)
(* groups_sort.                                                            *)
(***************************************************************************)
\* Line 49.
BOM_ORDER == "u,q,d,t,y,x,c,r,s,j,p,cnn,con"

\* Lines 349-350: BOM_ORDER has no blank and no backslash, so the pattern
\* splits it at every comma.
ref_identifiers == RegexSplit({","}, BOM_ORDER)

\* The characters of the model in the order of their code points, which is
\* the order Python compares strings by.
CodePoints == " #+,-./0123456789:;ABCDEFGHIJKLMNOPQRSTUVWXYZ\\_abcdefghijklmnopqrstuvwxyz~"

ord(c) == CHOOSE i \in 1..Len(CodePoints) : Char(CodePoints, i) = c

\* a < b for two strings whose longest common prefix has p characters.
StrLessAfter(a, b, p) ==
    IF p = Len(a) \/ p = Len(b) THEN Len(a) < Len(b)
    ELSE ord(Char(a, p + 1)) < ord(Char(b, p + 1))

StrLess(a, b) ==
    StrLessAfter(a, b, BeforeFirst({k \in 1..Min({Len(a), Len(b)}) : Char(a, k) # Char(b, k)},
                                   Min({Len(a), Len(b)})))

\* x < y for two lists of strings.
RECURSIVE ListLess(_, _)
ListLess(x, y) ==
    IF Len(x) = 0 \/ Len(y) = 0 THEN Len(x) < Len(y)
    ELSE IF x[1] = y[1] THEN ListLess(Tail(x), Tail(y))
    ELSE StrLess(x[1], y[1])

\* KeyLess on the refs alone.
KeyLess_RefsOnly(g, h) == ListLess(g.refs, h.refs)

\* Line 376: the key (group_manf_list[k] is None, group_refs_list[k]) of
\* group g is less than the key of group h.
KeyLess(g, h) ==
    \/ Get(g.fields, "manf#") # None /\ Get(h.fields, "manf#") = None
    \/ /\ (Get(g.fields, "manf#") = None) = (Get(h.fields, "manf#") = None)
       /\ ListLess(g.refs, h.refs)

\* SortedPlace of a sort that reverses the matches of equal key.
SortedPlace_TiesReversed(gs, match, k) ==
    1 + Cardinality({j \in 1..Len(match) :
                        \/ KeyLess(gs[match[j]], gs[match[k]])
                        \/ j > k /\ ~KeyLess(gs[match[k]], gs[match[j]])})

\* Line 376: sorted() is stable; the place of the k-th match in the sorted
\* list is after the matches of lesser key and the earlier ones of equal key.
SortedPlace(gs, match, k) ==
    1 + Cardinality({j \in 1..Len(match) :
                        \/ KeyLess(gs[match[j]], gs[match[k]])
                        \/ j < k /\ ~KeyLess(gs[match[k]], gs[match[j]])})

\* Lines 376-379.
SortMatch(gs, match) ==
    [p \in 1..Len(match) |-> match[CHOOSE k \in 1..Len(match) : SortedPlace(gs, match, k) = p]]

\* Line 353, with the lower() of line 361 applied to each element.
component_groups_refs(gs) == [i \in 1..Len(gs) |-> lower(gs[i].fields["reference"])]

\* Line 361.
component_groups_ref_match(refs_lower, ref_identifier) ==
    SelectSeq([i \in 1..Len(refs_lower) |-> i], LAMBDA i : ref_identifier = refs_lower[i])

\* RemoveMatch that removes nothing.
RemoveMatch_Keep(order_old, match) == order_old

\* Lines 367-371 and 382-385.
RemoveMatch(order_old, match) == SelectSeq(order_old, LAMBDA i : ~InList(i, match))

\* Lines 360-386: the loop over the identifiers ids; the order returned is
\* component_groups_order_new followed by component_groups_order_old (388).
RECURSIVE SortLoop(_, _, _, _, _)
SortStep(gs, refs_lower, ids, order_old, order_new, match) ==
    SortLoop(gs, refs_lower, Tail(ids), RemoveMatch(order_old, match),
             order_new \o (IF Len(match) > 1 THEN SortMatch(gs, match) ELSE match))

SortLoop(gs, refs_lower, ids, order_old, order_new) ==
    IF Len(ids) = 0 THEN order_new \o order_old
    ELSE SortStep(gs, refs_lower, ids, order_old, order_new,
                  component_groups_ref_match(refs_lower, ids[1]))

\* Line 389.
Reordered(gs, order_new) ==
    [status |-> "ok", order |-> order_new, groups |-> [i \in 1..Len(order_new) |-> gs[order_new[i]]]]

\* Lines 337-389.  A group without the field reference makes line 361 call
\* lower() of None, which raises AttributeError, when there is an identifier
\* to compare with (there always is).
groups_sort(gs) ==
    IF \E i \in 1..Len(gs) : Get(gs[i].fields, "reference") = None
    THEN [status |-> "error", order |-> <<>>, groups |-> <<>>]
    ELSE Reordered(gs, SortLoop(gs, component_groups_refs(gs), ref_identifiers,
                                [i \in 1..Len(gs) |-> i], <<>>))

Sorted(res) ==
    /\ groups_order' = res.order
    /\ sorted_groups' = res.groups
    /\ pc' = IF res.status = "ok" THEN "sorted" ELSE "sort_error"

GS_Sort ==
    /\ pc = "groups_sort"
    /\ Sorted(groups_sort(groups_in))
    /\ UNCHANGED <<groups_in, resorted_groups>>
    /\ UNCHANGED <<group_parts_vars, subpart_split_vars, refs_vars>>
    /\ UNCHANGED <<decode_vars, dnp_vars>>

\* The list returned is sorted again.
GS_Resort ==
    /\ pc = "sorted"
    /\ resorted_groups' = groups_sort(sorted_groups).groups
    /\ pc' = "resorted"
    /\ UNCHANGED <<groups_in, groups_order, sorted_groups>>
    /\ UNCHANGED <<group_parts_vars, subpart_split_vars, refs_vars>>
    /\ UNCHANGED <<decode_vars, dnp_vars>>

(***************************************************************************)
(* The lists of groups groups_sort is run on.                              *)
(***************************************************************************)
MaxGroups == 3

GroupReferences == {Absent, "U", "R", "r", "Z"}
\* The manf# a group of the given reference may hold.
GroupManfNums(r) ==
    IF r = "R" THEN {Absent, "A", "B"} ELSE IF r \in {"U", "r"} THEN {Absent, "A"} ELSE {Absent}

\* The refs of a group of the given reference: one designator, or two.
GroupRefs(reference) ==
    {<<reference \o "10">>, <<reference \o "2", reference \o "3">>}

\* The groups of one reference; the group without the field reference has
\* the designator N10.
GroupsOf(r) ==
    {[refs |-> rs,
      fields |-> WithField(WithField([k \in {"value"} |-> "1k"], "reference", r), "manf#", n)] :
        rs \in (IF r = Absent THEN {<<"N10">>} ELSE GroupRefs(r)), n \in GroupManfNums(r)}

GroupPool == UNION {GroupsOf(r) : r \in GroupReferences}

GroupLists == UNION {[1..n -> GroupPool] : n \in 0..MaxGroups}

InitSort ==
    /\ pc = "groups_sort"
    /\ groups_in \in GroupLists
    /\ groups_order = <<>> /\ sorted_groups = <<>> /\ resorted_groups = <<>>
    /\ IdleGroupParts /\ IdleSplit /\ IdleRefs /\ IdleDecode /\ IdleDnp

NextSort == GS_Sort \/ GS_Resort

SpecSort == InitSort /\ [][NextSort]_vars

(***************************************************************************)
(* remove_dnp_parts.                                                       *)
(***************************************************************************)
\* dict.get(key, default).
GetOr(fields, key, default) == IF key \in DOMAIN fields THEN fields[key] ELSE default

\* Line 308: float(s) succeeds.  The strings of the model are decimal
\* numerals or words: s stripped is an optional sign, then digits with at
\* most one point and at least one digit.
DecimalBody(body) ==
    /\ AllChars(Digits \cup {"."}, body)
    /\ Cardinality({k \in 1..Len(body) : Char(body, k) = "."}) <= 1
    /\ \E k \in 1..Len(body) : IsDigit(Char(body, k))

Unsigned(t) == IF Char(t, 1) \in {"+", "-"} THEN SubSeq(t, 2, Len(t)) ELSE t

IsFloat(s) == DecimalBody(Unsigned(Strip(s)))

\* Line 311: the truth value of dnp after lines 307-310, a float when the
\* conversion succeeded (true unless it is zero) and the string otherwise
\* (true unless it is empty).
Truthy_NumbersOnly(dnp) == IsFloat(dnp) /\ \E k \in 1..Len(dnp) : Char(dnp, k) \in Digits \ {"0"}

Truthy(dnp) ==
    IF IsFloat(dnp) THEN \E k \in 1..Len(dnp) : Char(dnp, k) \in Digits \ {"0"}
    ELSE dnp # ""

\* Line 306; the default, the integer 0, is written as the numeral.
dnp_of(fields) == GetOr(fields, "local:dnp", GetOr(fields, "dnp", "0"))

\* Line 315.
variants_of(fields) == GetOr(fields, "local:variant", Get(fields, "variant"))

\* Line 324: re.match(variant, v, flags=re.IGNORECASE) for a pattern without
\* metacharacters: v starts with the pattern, whatever the case.
re_match_CaseSensitive(pattern, v) ==
    Len(pattern) <= Len(v) /\ SubSeq(v, 1, Len(pattern)) = pattern

re_match(pattern, v) ==
    Len(pattern) <= Len(v) /\ lower(SubSeq(v, 1, Len(pattern))) = lower(pattern)

\* Lines 323-328.
AnyMatch(pattern, vs) == \E i \in 1..Len(vs) : re_match(pattern, vs[i])

\* Lines 319-328: the part is assigned to the current variant.
InVariant(variants, pattern) ==
    IF variants = None \/ variants = "" THEN TRUE
    ELSE AnyMatch(pattern, SplitChars({",", ";", "/", " "}, variants))

\* Lines 305-331, one iteration: the part is accepted.
Accepted(fields, pattern) ==
    ~Truthy(dnp_of(fields)) /\ InVariant(variants_of(fields), pattern)

\* Lines 294-334.
remove_dnp_parts(comps, pattern) ==
    [ref \in {r \in DOMAIN comps : Accepted(comps[r], pattern)} |-> comps[ref]]

DN_Remove ==
    /\ pc = "remove_dnp_parts"
    /\ accepted_components' = remove_dnp_parts(raw_components, variant)
    /\ pc' = "dnp_removed"
    /\ UNCHANGED <<raw_components, variant>>
    /\ UNCHANGED <<group_parts_vars, subpart_split_vars, refs_vars>>
    /\ UNCHANGED <<decode_vars, sort_vars>>

(***************************************************************************)
(* The RecordSets and variants remove_dnp_parts is run on.                 *)
(***************************************************************************)
NumDnpParts == 2

\* The values of local:dnp and dnp of a part, and of local:variant and variant.
DnpChoices ==
    {<<Absent, Absent>>, <<Absent, "0">>, <<Absent, "1">>, <<Absent, "0.0">>, <<Absent, "">>,
     <<Absent, "yes">>, <<"0", "1">>, <<"1", "0">>}

VariantChoices ==
    {<<Absent, Absent>>, <<Absent, "">>, <<Absent, "V1">>, <<Absent, "v2,v1">>,
     <<Absent, "x;V10">>, <<"V2", "V1">>, <<"", "V1">>}

DnpRecords ==
    {WithField(WithField(WithField(WithField([k \in {"value"} |-> "1k"],
        "local:dnp", d[1]), "dnp", d[2]), "local:variant", v[1]), "variant", v[2]) :
        d \in DnpChoices, v \in VariantChoices}

DnpRefs == {"R" \o IntToStr(i) : i \in 1..NumDnpParts}

VariantPatterns == {"v1", "V2"}

InitDnp ==
    /\ pc = "remove_dnp_parts"
    /\ raw_components \in [DnpRefs -> DnpRecords]
    /\ variant \in VariantPatterns
    /\ accepted_components = EmptyDict
    /\ IdleGroupParts /\ IdleSplit /\ IdleRefs /\ IdleDecode /\ IdleSort

NextDnp == DN_Remove

SpecDnp == InitDnp /\ [][NextDnp]_vars

(***************************************************************************)
(* C11-C12: the decoder.                                                   *)
(***************************************************************************)
\* The quantity a code was written with, "1" when it was written with none.
WrittenQty(c) == IF c.qty = "" THEN "1" ELSE c.qty

\* A part code written without any escape character.
PlainPart(c) == \A i \in 1..Len(c.part) : Char(c.part, i) # "\\"

\* C11: a code with no quantity separator decodes to quantity "1" and the
\* code verbatim; a code with one separator and a numeric text on exactly
\* one side decodes to that text trimmed as quantity ("1" when it is empty)
\* and the other side trimmed as part code.
C11_DecoderClassification ==
    pc = "decoded" =>
        /\ Len(decoded) = Len(code_items.items)
        /\ \A i \in 1..Len(decoded) :
              PlainPart(code_items.items[i]) =>
                  decoded[i] = [qty |-> WrittenQty(code_items.items[i]),
                                part |-> code_items.items[i].part]

C11_Witness ==
    /\ pc = "decoded"
    /\ code_text = " 4.5 : X;G1.5 :   4.5"
    /\ decoded = <<[qty |-> "4.5", part |-> "X"], [qty |-> "4.5", part |-> "G1.5"]>>

\* The part code an escaped part code stands for: each escaped separator is
\* the separator itself.
LiteralPart(c) == RemoveChars({"\\"}, c.part)

\* C12: an escaped separator inside a code is an ordinary character of the
\* part code: the code is not split at it, and it is in the decoded part
\* code without its escape character.
C12_EscapedSeparatorsLiteral ==
    pc = "decoded" =>
        /\ Len(decoded) = Len(code_items.items)
        /\ \A i \in 1..Len(decoded) :
              decoded[i] = [qty |-> WrittenQty(code_items.items[i]),
                            part |-> LiteralPart(code_items.items[i])]

(***************************************************************************)
(* C13, C14, C16: groups_sort.                                             *)
(***************************************************************************)
\* The number of places of the list l that hold x.
Count(l, x) == Cardinality({i \in 1..Len(l) : l[i] = x})

\* C13: the list groups_sort returns for groups that each hold a reference
\* has the length of the list passed and holds every place of the list
\* passed exactly once: no group is dropped, duplicated or created.
C13_SortIsPermutation ==
    pc \in {"sorted", "resorted"} =>
        /\ Len(sorted_groups) = Len(groups_in)
        /\ Len(groups_order) = Len(groups_in)
        /\ \A i \in 1..Len(groups_in) : Count(groups_order, i) = 1
        /\ \A p \in 1..Len(groups_order) : sorted_groups[p] = groups_in[groups_order[p]]
        /\ \A p \in 1..Len(groups_in) :
              Count(sorted_groups, groups_in[p]) = Count(groups_in, groups_in[p])

C13_Witness ==
    /\ pc = "sorted"
    /\ Len(groups_in) = 3
    /\ groups_in[1] = groups_in[3]
    /\ groups_in[1].fields["reference"] = "R"
    /\ groups_in[2].fields["reference"] = "U"
    /\ groups_order = <<2, 1, 3>>

\* C14: sorting the list groups_sort returned returns the same list, ties
\* of the sort key included.
C14_SortIdempotent ==
    pc = "resorted" => resorted_groups = sorted_groups

\* Two groups of the same category and the same sort key that differ, and a
\* list that the first call did reorder.
C14_Witness ==
    /\ pc = "resorted"
    /\ sorted_groups # groups_in
    /\ \E i, j \in 1..Len(sorted_groups) :
          /\ i < j
          /\ sorted_groups[i] # sorted_groups[j]
          /\ lower(sorted_groups[i].fields["reference"]) = "r"
          /\ lower(sorted_groups[j].fields["reference"]) = "r"
          /\ sorted_groups[i].refs = sorted_groups[j].refs
          /\ Get(sorted_groups[i].fields, "manf#") = "B"
          /\ Get(sorted_groups[j].fields, "manf#") = "A"

\* The categories of BOM_ORDER, in its order.
BomCategories == <<"u", "q", "d", "t", "y", "x", "c", "r", "s", "j", "p", "cnn", "con">>

\* The place in BOM_ORDER of the category named name, 0 when there is none.
CategoryNamed(name) ==
    IF InList(name, BomCategories)
    THEN CHOOSE c \in 1..Len(BomCategories) : BomCategories[c] = name
    ELSE 0

CategoryOf(g) == CategoryNamed(lower(g.fields["reference"]))

\* Group gp of category cp, passed at place ip, may be returned before group
\* gq of category cq, passed at place iq.
MayPrecede(gp, gq, cp, cq, ip, iq) ==
    /\ cq # 0 => cp # 0 /\ cp <= cq
    /\ cp = cq /\ cp # 0 /\ Get(gq.fields, "manf#") # None => Get(gp.fields, "manf#") # None
    /\ cp = 0 => ip < iq

\* C16: in the list groups_sort returns, the groups of a category of
\* BOM_ORDER (the reference compared ignoring case) are before the groups
\* of no category, the groups of an earlier category before those of a
\* later one, within a category the groups that hold a manf# before those
\* that hold none, and the groups of no category are in the order they were
\* passed in.
C16_SortOrder ==
    pc \in {"sorted", "resorted"} =>
        \A p, q \in 1..Len(sorted_groups) :
            p < q => MayPrecede(sorted_groups[p], sorted_groups[q],
                                CategoryOf(sorted_groups[p]), CategoryOf(sorted_groups[q]),
                                groups_order[p], groups_order[q])

\* Passed: a group of no category, a group of category r without manf#, a
\* group of category u; returned: u, r, none.
C16_Witness ==
    /\ pc = "sorted"
    /\ Len(groups_in) = 3
    /\ groups_in[1].fields["reference"] = "Z"
    /\ groups_in[2].fields["reference"] = "R" /\ Get(groups_in[2].fields, "manf#") = None
    /\ groups_in[3].fields["reference"] = "U"
    /\ groups_order = <<3, 2, 1>>

\* Passed: two groups of category r, the one without manf# first and of
\* lesser refs; returned: the one that holds a manf# first.
C16_WitnessManf ==
    /\ pc = "sorted"
    /\ Len(groups_in) = 2
    /\ groups_in[1].fields["reference"] = "R" /\ Get(groups_in[1].fields, "manf#") = None
    /\ groups_in[2].fields["reference"] = "r" /\ Get(groups_in[2].fields, "manf#") = "A"
    /\ ListLess(groups_in[1].refs, groups_in[2].refs)
    /\ groups_order = <<2, 1>>

(***************************************************************************)
(* C15: remove_dnp_parts.                                                  *)
(***************************************************************************)
\* The value of the local field when the record holds it, else of the
\* general field, else the default.
Effective(fields, local, general, default) ==
    IF local \in DOMAIN fields THEN fields[local]
    ELSE IF general \in DOMAIN fields THEN fields[general]
    ELSE default

\* A decimal numeral.
Numeral(s) ==
    /\ \A k \in 1..Len(s) : Char(s, k) \in Digits \cup {"."}
    /\ \E k \in 1..Len(s) : Char(s, k) \in Digits

NonZeroNumber(s) == Numeral(s) /\ \E k \in 1..Len(s) : Char(s, k) \in Digits \ {"0"}

ZeroNumber(s) == Numeral(s) /\ \A k \in 1..Len(s) : Char(s, k) \in {"0", "."}

VariantSeparators == {",", ";", "/", " "}

\* The elements of a variant field: the longest pieces without a separator.
Elements(s) ==
    {SubSeq(s, ij[1], ij[2]) : ij \in
        {ij \in (1..(Len(s) + 1)) \X (0..Len(s)) :
            /\ ij[1] <= ij[2] + 1
            /\ \A k \in ij[1]..ij[2] : Char(s, k) \notin VariantSeparators
            /\ ij[1] = 1 \/ Char(s, ij[1] - 1) \in VariantSeparators
            /\ ij[2] = Len(s) \/ Char(s, ij[2] + 1) \in VariantSeparators}}

\* The pattern, a plain word, matches a prefix of the element, ignoring case.
MatchedBy(pattern, element) ==
    \E n \in 0..Len(element) : lower(SubSeq(element, 1, n)) = lower(pattern)

SomeElementMatched(pattern, s) == \E e \in Elements(s) : MatchedBy(pattern, e)

\* C15 as stated: a record is accepted exactly when its effective dnp is
\* not a non-zero number and its effective variant is absent or has an
\* element matched by the variant pattern; accepted records are unchanged.
C15_DnpFilter_AsStated ==
    pc = "dnp_removed" =>
        \A r \in DOMAIN raw_components :
            /\ r \in DOMAIN accepted_components <=>
                  /\ ~NonZeroNumber(Effective(raw_components[r], "local:dnp", "dnp", "0"))
                  /\ \/ Effective(raw_components[r], "local:variant", "variant", Absent) = Absent
                     \/ SomeElementMatched(variant, Effective(raw_components[r], "local:variant",
                                                              "variant", Absent))
            /\ r \in DOMAIN accepted_components => accepted_components[r] = raw_components[r]

\* C15 as the code has it: a record is accepted exactly when its effective
\* dnp is the empty string or a number equal to zero (any other text drops
\* the record, as a non-zero number does) and its effective variant is
\* absent, empty, or has an element matched by the variant pattern;
\* accepted records are unchanged and no other designator is returned.
C15_DnpFilter ==
    pc = "dnp_removed" =>
        /\ DOMAIN accepted_components \subseteq DOMAIN raw_components
        /\ \A r \in DOMAIN raw_components :
            /\ r \in DOMAIN accepted_components <=>
                  /\ \/ Effective(raw_components[r], "local:dnp", "dnp", "0") = ""
                     \/ ZeroNumber(Effective(raw_components[r], "local:dnp", "dnp", "0"))
                  /\ \/ Effective(raw_components[r], "local:variant", "variant", Absent)
                            \in {Absent, ""}
                     \/ SomeElementMatched(variant, Effective(raw_components[r], "local:variant",
                                                              "variant", Absent))
            /\ r \in DOMAIN accepted_components => accepted_components[r] = raw_components[r]

\* R1 is dropped for a dnp that is a word; R2, assigned to V10 among others
\* and with a dnp of 0.0, is accepted for the variant v1.
C15_Witness ==
    /\ pc = "dnp_removed"
    /\ variant = "v1"
    /\ Get(raw_components["R1"], "dnp") = "yes"
    /\ Get(raw_components["R1"], "variant") = None
    /\ Get(raw_components["R2"], "variant") = "x;V10"
    /\ DOMAIN accepted_components = {"R2"}

(***************************************************************************)
(* C17, C20: group_parts.                                                  *)
(***************************************************************************)
\* The value a record holds for a merge field, a missing field counting as
\* the empty string.
HeldValue(fields, f) == IF f \in DOMAIN fields THEN fields[f] ELSE ""

\* The entries of a composite string, and the references and the value of
\* an entry "refs: value" whose separator is at index p.
EntriesOf(composite) == SplitChars({"\n"}, composite)

EntryRefsAt(entry, p) ==
    IF p <= 1 THEN {} ELSE SeqSet(split_refs(SubSeq(entry, 1, p - 1)).refs)

EntryRefs(entry) ==
    EntryRefsAt(entry, Min({k \in 1..Len(entry) : Char(entry, k) = ":"} \cup {Len(entry) + 1}))

EntryValue(entry) ==
    SubSeq(entry, Min({k \in 1..Len(entry) : Char(entry, k) = ":"} \cup {Len(entry) + 1}) + 2,
           Len(entry))

\* The members rs of a group hold, for the field f, the composite of the
\* values the records passed held.
IsCompositeOf(rs, f, entries) ==
    /\ Len(entries) = Cardinality({HeldValue(components_in[r], f) : r \in SeqSet(rs)})
    /\ \A r \in SeqSet(rs) :
          /\ Cardinality({k \in 1..Len(entries) : r \in EntryRefs(entries[k])}) = 1
          /\ \A k \in 1..Len(entries) :
                r \in EntryRefs(entries[k]) =>
                    EntryValue(entries[k]) = HeldValue(components_in[r], f)

MergeRule(rs, f) ==
    IF Cardinality({HeldValue(components_in[r], f) : r \in SeqSet(rs)}) > 1
    THEN /\ \A r \in SeqSet(rs) :
               f \in DOMAIN components[r] /\ components[r][f] = HeldValue(components[rs[1]], f)
         /\ IsCompositeOf(rs, f, EntriesOf(HeldValue(components[rs[1]], f)))
    ELSE \A r \in SeqSet(rs) : components[r] = components_in[r]

\* C17: after the merge pass with the merge field desc, the members of a
\* group that held more than one distinct value (a missing field counting
\* as the empty string) all hold the same composite, which has one entry
\* for each distinct value and lists every member in exactly one entry, the
\* entry of the value it held; the members of a group with one distinct
\* value are not modified.
C17_MergeComposite ==
    pc \in {"propagate", "returned", "exit_mismatch"} /\ fields_merge = <<"desc">> =>
        \A g \in 1..Len(new_component_groups) : MergeRule(new_component_groups[g].refs, "desc")

(***************************************************************************)
(* C18, C19: subpart_split.                                                *)
(***************************************************************************)
\* The designator sub of the output is a sub-part of the designator d.
IsSubpartOf(sub, d) ==
    Len(sub) > Len(d) + 1 /\ SubSeq(sub, 1, Len(d) + 1) = d \o "#"

\* The manufacturer names of the record's own manf list, and the empty name
\* of a list that is too short or missing.
OwnNames(fields) ==
    {""} \cup (IF "manf" \in DOMAIN fields
               THEN SeqSet(SplitChars({";", ","}, fields["manf"])) \ {"~"}
               ELSE {})

\* C18: the manf of every sub-part d#i that subpart_split returns is a name
\* of d's own manf list: no name resolved for another designator is carried
\* over into it.
C18_ManfResolutionLocal ==
    pc = "split_returned" =>
        \A d \in DOMAIN parts : \A sub \in DOMAIN splitted_components :
            IsSubpartOf(sub, d) /\ "manf" \in DOMAIN splitted_components[sub] =>
                splitted_components[sub]["manf"] \in OwnNames(parts[d])

\* The number of codes of a field value: one more than its list separators.
CodeCount(value) == 1 + Cardinality({k \in 1..Len(value) : Char(value, k) \in {";", ","}})

\* The number of sub-parts of a record: the most codes any of its
\* manufacturer/distributor code fields holds, 0 when it holds none.
SubpartCount(fields) ==
    Max({0} \cup {CodeCount(fields[f]) : f \in {"manf#", "mouser#", "digikey#"} \cap DOMAIN fields})

\* The designator d of a record of n sub-parts is in the output out.
Represented(d, n, out) ==
    IF n > 1 THEN \A i \in 1..n : (d \o "#" \o IntToStr(i)) \in DOMAIN out
    ELSE d \in DOMAIN out

\* C19: every designator passed to subpart_split is in what it returns, as
\* itself (no code field, or one sub-part) or as its sub-parts d#1..d#N,
\* whether or not its record holds value or manf; and every designator
\* returned is one passed or a sub-part of one.
C19_NoDesignatorLost ==
    pc = "split_returned" =>
        /\ \A d \in DOMAIN parts :
              Represented(d, SubpartCount(parts[d]), splitted_components)
        /\ \A sub \in DOMAIN splitted_components :
              \E d \in DOMAIN parts : sub = d \/ IsSubpartOf(sub, d)

\* Lines 180-291 as one function of the RecordSet comps inserted in the
\* order insertion: what group_parts returns, the groups as sets of designators
\* with their fields, or that it aborts.  Every order of iteration of a set
\* of manf# (line 234) gives one outcome.
Aborted == [status |-> "aborted", groups |-> {}]

Returned(gs, fs) ==
    IF \A i \in 1..Len(gs) : fs[i].ok
    THEN [status |-> "returned",
          groups |-> {[refs |-> SeqSet(gs[i].refs), fields |-> fs[i].fields] : i \in 1..Len(gs)}]
    ELSE Aborted

MergedOutcome(gs, res) ==
    IF res.status = "ok"
    THEN Returned(gs, [i \in 1..Len(gs) |-> GroupFields(res.comps, gs[i].refs)])
    ELSE Aborted

group_parts_outcomes(comps, insertion, merge) ==
    {MergedOutcome(gs, MergeGroups(comps, gs, TranslateAll(merge))) :
        gs \in SplitGroups(comps, HashParts(comps, insertion, merge, <<>>))}

\* What the run of the state did.
ThisOutcome ==
    IF pc = "returned"
    THEN [status |-> "returned",
          groups |-> {[refs |-> SeqSet(new_component_groups[i].refs),
                       fields |-> new_component_groups[i].fields] :
                        i \in 1..Len(new_component_groups)}]
    ELSE Aborted

\* C20: group_parts does the same for every order of insertion of the same
\* records: it aborts for all or returns for all, and returns the same
\* groups, as sets of designators, with the same fields.
C20_InsertionOrderIndependent ==
    pc \in {"returned", "exit_mismatch"} =>
        \A insertion \in Orders(DOMAIN components_in) :
            group_parts_outcomes(components_in, insertion, fields_merge) = {ThisOutcome}

=============================================================================
